---- MODULE Spec2Model ----
(***************************************************************************)
(* A model of the worktree lifecycle of git-worktree-runner: the Manager   *)
(* operations CreateWorktree, Remove, Clean and ResolveTarget, the         *)
(* enumerator ListPorcelain, Manager.List, and the advisory file locks     *)
(* they take under the repository's common directory.                      *)
(*                                                                         *)
(* Names (branches, identifiers, directory names) are sequences of         *)
(* one-character strings, so that SanitizeBranchName is computed            *)
(* character by character.  A path is a record: the main root, or a child  *)
(* of the configured worktrees base directory.                             *)
(***************************************************************************)
EXTENDS Integers, Sequences, FiniteSets, TLC

VARIABLES
    world,          \* configuration fixed for a run: prefix, base dir layout
    baseDirExists,  \* whether the worktrees base directory exists on disk
    dirs,           \* child name of base dir -> "absent" | "empty" | "wt"
    meta,           \* child name -> metadata row of common_dir/worktrees, or NoRow
    heads,          \* local branches (refs/heads/*)
    remotes,        \* remote-tracking branches (refs/remotes/origin/*)
    lockHeld,       \* lock file name -> holder process, or NoProc
    proc,           \* process -> the operation it is running and its position
    created,        \* names of the worktrees a CreateWorktree has returned
    opsLeft,        \* calls and outside changes that may still be started
    config,         \* scope -> the values `git config` holds for the key
    tool            \* the last call of a stateless operation, and the mutator log

vars == <<world, baseDirExists, dirs, meta, heads, remotes, lockHeld, proc, created,
          opsLeft, config, tool>>

----------------------------------------------------------------------------
(* Bounds of the model.                                                     *)

MaxOps == 2
MaxIds == 2
MaxHooks == 2

----------------------------------------------------------------------------
(* Names.                                                                   *)

NoName == <<>>
DetachedBranch == <<"(detached)">>
MainIdentifier == <<"1">>
BranchMain == <<"m", "a", "i", "n">>
BranchSlash == <<"a", "/", "b">>
NameDash == <<"a", "-", "b">>
RepoName == <<"r">>
OrphanName == <<"o">>
SuffixX == <<"x">>
PrefixW == <<"w">>

\* Branch arguments given to CreateWorktree.
CreateBranches == {NoName, MainIdentifier, BranchSlash}
\* Identifiers given to ResolveTarget and Remove.
Identifiers == {NoName, MainIdentifier, BranchMain, BranchSlash, NameDash, RepoName,
                OrphanName}
Suffixes == {NoName, SuffixX}
Prefixes == {NoName, PrefixW}
\* Branches the remote "origin" has.
OriginHeads == {BranchMain, BranchSlash}

ForbiddenChars == {"/", " ", ":", "*", "?", "\"", "<", ">", "|"}

RECURSIVE TrimLeft(_, _)
TrimLeft(s, cs) ==
    IF s # <<>> /\ Head(s) \in cs THEN TrimLeft(Tail(s), cs) ELSE s

RECURSIVE TrimRight(_, _)
TrimRight(s, cs) ==
    IF s # <<>> /\ s[Len(s)] \in cs THEN TrimRight(SubSeq(s, 1, Len(s) - 1), cs) ELSE s

ReplaceForbidden(s) ==
    [i \in 1..Len(s) |-> IF s[i] \in ForbiddenChars THEN "-" ELSE s[i]]

\* naming.SanitizeBranchName: trim whitespace, replace the forbidden characters
\* by "-", trim leading and trailing "-".
SanitizeBranchName(s) ==
    TrimRight(TrimLeft(ReplaceForbidden(TrimRight(TrimLeft(s, {" "}), {" "})), {"-"}), {"-"})

\* worktreeName of CreateWorktree: sanitize(branch) [+ "-" + suffix].
WorktreeName(branch, suffix) ==
    IF suffix # NoName
        THEN SanitizeBranchName(branch) \o <<"-">> \o suffix
        ELSE SanitizeBranchName(branch)

\* Every child name of the base directory the model can hold.
AllNames ==
    { pre \o WorktreeName(b, s) :
        pre \in Prefixes, b \in CreateBranches \ {NoName}, s \in Suffixes }
    \cup { pre \o SanitizeBranchName(id) : pre \in Prefixes, id \in Identifiers \ {NoName} }

\* Byte order of the characters in use (os.ReadDir and sort.Slice order strings
\* bytewise).
Alphabet == <<"(detached)", "-", "/", "1", "a", "b", "i", "m", "n", "o", "r", "w", "x">>
CharRank(c) == CHOOSE i \in 1..Len(Alphabet) : Alphabet[i] = c

RECURSIVE NameLess(_, _)
NameLess(s, t) ==
    IF t = <<>> THEN FALSE
    ELSE IF s = <<>> THEN TRUE
    ELSE IF Head(s) = Head(t) THEN NameLess(Tail(s), Tail(t))
    ELSE CharRank(Head(s)) < CharRank(Head(t))

RECURSIVE SortNames(_)
SortNames(S) ==
    IF S = {} THEN <<>>
    ELSE LET m == CHOOSE x \in S : \A y \in S \ {x} : NameLess(x, y)
         IN  <<m>> \o SortNames(S \ {m})

----------------------------------------------------------------------------
(* Paths and the on-disk state.                                             *)

MainRoot == [root |-> "main", name |-> NoName]
NoPath == [root |-> "none", name |-> NoName]
BasePath(name) == [root |-> "base", name |-> name]

\* A row of common_dir/worktrees/<id>.  complete = FALSE while `git worktree add`
\* has made the directory but not yet written its gitdir file.
NoRow == [present |-> FALSE, branch |-> NoName, complete |-> FALSE, locked |-> FALSE]
Row(branch, complete) ==
    [present |-> TRUE, branch |-> branch, complete |-> complete, locked |-> FALSE]

\* The worlds a run can be in.  base = "sibling": the default base directory
\* <parent>/<repo>-worktrees.  base = "parent": worktrees.dir configured to the
\* parent directory of the main root, so that the child named after the
\* repository is the main root itself.
Worlds ==
    { [prefix |-> PrefixW, base |-> "sibling"],
      [prefix |-> NoName, base |-> "parent"] }

\* worktrees.ResolvePaths followed by filepath.Join(paths.BaseDir, name), the
\* result canonical as the enumerator's paths are.
JoinBase(name) ==
    IF world.base = "parent" /\ name = RepoName THEN MainRoot ELSE BasePath(name)

BaseDirPresent == world.base = "parent" \/ baseDirExists

\* os.Stat(path) == nil
PathExists(path) ==
    \/ path = MainRoot
    \/ path.root = "base" /\ BaseDirPresent /\ dirs[path.name] # "absent"

\* The branch checked out in the main worktree (common_dir/HEAD).
MainBranch == BranchMain

\* Branches checked out in some worktree of the repository.
CheckedOut(b) ==
    \/ b = MainBranch
    \/ \E n \in AllNames : meta[n].present /\ meta[n].branch = b

----------------------------------------------------------------------------
(* The enumerator: worktrees.ListPorcelain.                                 *)

PorcelainEntry(path, branch, detached, locked, prunable) ==
    [path |-> path, branch |-> branch, detached |-> detached, locked |-> locked,
     prunable |-> prunable]

\* isPrunableWorktree: the path is missing, or holds no .git pointer file.
isPrunableWorktree(name) == ~BaseDirPresent \/ dirs[name] # "wt"

\* The names that have a metadata directory, in os.ReadDir order.
MetaNames == SortNames({n \in AllNames : meta[n].present})

\* worktreePathFromMeta fails when a metadata directory has no readable gitdir.
MetaReadable == \A n \in AllNames : meta[n].present => meta[n].complete

\* LinkedEntry with the branch of the metadata HEAD left unread.
LinkedEntryNoBranch(n) ==
    PorcelainEntry(BasePath(n), DetachedBranch, TRUE, meta[n].locked, isPrunableWorktree(n))

LinkedEntry(n) ==
    PorcelainEntry(BasePath(n), meta[n].branch, meta[n].branch = DetachedBranch,
                   meta[n].locked, isPrunableWorktree(n))

\* ListPorcelain: the main entry first, then one entry per metadata directory;
\* an unreadable metadata directory fails the whole listing.
ListPorcelain ==
    IF ~MetaReadable
        THEN [ok |-> FALSE, entries |-> <<>>]
        ELSE [ok |-> TRUE,
              entries |->
                  <<PorcelainEntry(MainRoot, MainBranch, MainBranch = DetachedBranch,
                                   FALSE, FALSE)>>
                  \o [i \in 1..Len(MetaNames) |-> LinkedEntry(MetaNames[i])]]

\* gitx.CurrentBranchGit(dir): `git branch --show-current` fails outside a
\* working tree of the repository.  base = "inside": worktrees.dir is a relative
\* path, which ResolvePaths joins to the main root, so that a plain directory
\* under the base directory lies in the main working tree.
CurrentBranchGit(path) ==
    IF path = MainRoot THEN [ok |-> TRUE, branch |-> MainBranch]
    ELSE IF /\ path.root = "base" /\ BaseDirPresent /\ dirs[path.name] = "wt"
            /\ meta[path.name].present /\ meta[path.name].complete
        THEN [ok |-> TRUE, branch |-> meta[path.name].branch]
    ELSE IF /\ world.base = "inside" /\ path.root = "base" /\ BaseDirPresent
            /\ dirs[path.name] = "empty"
        THEN [ok |-> TRUE, branch |-> MainBranch]
    ELSE [ok |-> FALSE, branch |-> NoName]

----------------------------------------------------------------------------
(* Manager.ResolveTarget.                                                   *)

Target(isMain, path, branch) == [isMain |-> isMain, path |-> path, branch |-> branch]
NoTarget == Target(FALSE, NoPath, NoName)

Resolved(t) == [err |-> "nil", target |-> t]
ResolveFailed(e) == [err |-> e, target |-> NoTarget]

\* byPath filled the wrong way round: the first entry of the listing.
EntryAtFirst(entries, path) == entries[1]

\* byPath[p]: the last entry of the listing whose path is p.
EntryAt(entries, path) ==
    LET idx == {i \in 1..Len(entries) : entries[i].path = path}
    IN  entries[CHOOSE i \in idx : \A j \in idx : j <= i]

HasEntryAt(entries, path) == \E i \in 1..Len(entries) : entries[i].path = path

\* The first linked entry whose branch equals the identifier.
BranchMatches(entries, identifier) ==
    {i \in 1..Len(entries) :
        entries[i].path # MainRoot /\ entries[i].branch = identifier}

ResolveTarget(identifier) ==
    LET lp == ListPorcelain
        entries == lp.entries
        mainEntry == EntryAt(entries, MainRoot)
        candidate == JoinBase(world.prefix \o SanitizeBranchName(identifier))
        cur == CurrentBranchGit(candidate)
        hits == BranchMatches(entries, identifier)
    IN  IF identifier = NoName THEN ResolveFailed("target_not_found")
        ELSE IF ~lp.ok THEN ResolveFailed("list_error")
        ELSE IF identifier = MainIdentifier
            THEN Resolved(Target(TRUE, MainRoot, mainEntry.branch))
        ELSE IF mainEntry.branch # DetachedBranch /\ identifier = mainEntry.branch
            THEN Resolved(Target(TRUE, MainRoot, mainEntry.branch))
        ELSE IF HasEntryAt(entries, candidate)
            THEN Resolved(Target(FALSE, EntryAt(entries, candidate).path,
                                 EntryAt(entries, candidate).branch))
        ELSE IF PathExists(candidate)
            THEN IF cur.ok THEN Resolved(Target(FALSE, candidate, cur.branch))
                 ELSE ResolveFailed("vcs_error")
        ELSE IF hits # {}
            THEN LET i == CHOOSE i \in hits : \A j \in hits : i <= j
                 IN  Resolved(Target(FALSE, entries[i].path, entries[i].branch))
        ELSE ResolveFailed("target_not_found")

----------------------------------------------------------------------------
(* Manager.List.                                                            *)

HasPrefix(name, pre) == Len(pre) <= Len(name) /\ SubSeq(name, 1, Len(pre)) = pre

\* The children of the base directory that are directories.
BaseChildren ==
    IF ~BaseDirPresent THEN {}
    ELSE {n \in AllNames : dirs[n] \notin {"absent", "file"}}
         \cup (IF world.base = "parent" THEN {RepoName} ELSE {})

\* The base-directory sweep: directories whose name starts with the prefix.
SweepPaths == {JoinBase(n) : n \in {c \in BaseChildren : HasPrefix(c, world.prefix)}}

\* The status with a prunable entry reported before a locked one.
StatusOfPrunableFirst(e) ==
    IF e.prunable THEN "prunable"
    ELSE IF e.locked THEN "locked"
    ELSE IF e.detached THEN "detached"
    ELSE "ok"

StatusOf(e) ==
    IF e.locked THEN "locked"
    ELSE IF e.prunable THEN "prunable"
    ELSE IF e.detached THEN "detached"
    ELSE "ok"

ListEntry(entries, path) ==
    LET known == HasEntryAt(entries, path)
        cur == CurrentBranchGit(path)
    IN  [target |->
            Target(path = MainRoot, path,
                   IF known THEN EntryAt(entries, path).branch
                   ELSE IF cur.ok /\ cur.branch # NoName THEN cur.branch
                   ELSE DetachedBranch),
         status |-> IF known THEN StatusOf(EntryAt(entries, path)) ELSE "missing"]

\* The order of sort.Slice in List: main first, then by branch, then by path.
EntryLess(a, b) ==
    IF a.target.isMain # b.target.isMain THEN a.target.isMain
    ELSE IF a.target.branch # b.target.branch
        THEN NameLess(a.target.branch, b.target.branch)
    ELSE NameLess(a.target.path.name, b.target.path.name)

RECURSIVE SortEntries(_)
SortEntries(S) ==
    IF S = {} THEN <<>>
    ELSE LET m == CHOOSE x \in S : \A y \in S \ {x} : EntryLess(x, y)
         IN  <<m>> \o SortEntries(S \ {m})

\* Manager.List: [ok, entries]; the listing fails when the enumerator fails.
List ==
    LET lp == ListPorcelain
        seenPaths == {lp.entries[i].path : i \in 1..Len(lp.entries)} \cup SweepPaths
    IN  IF ~lp.ok THEN [ok |-> FALSE, entries |-> <<>>]
        ELSE [ok |-> TRUE,
              entries |-> SortEntries({ListEntry(lp.entries, p) : p \in seenPaths})]

----------------------------------------------------------------------------
(* Processes, lock files and the record of a running operation.             *)

Procs == {1, 2}
NoProc == 0

\* One caller, or two.  With two callers the model follows the interleavings of
\* their steps and draws each input from the narrow set; with one caller it
\* draws from the wide set.
Solo == DOMAIN proc = {1}
Pick(wide, narrow) == IF Solo THEN wide ELSE narrow

\* Whether a command, a copy, a hook or a fetch succeeds.
Outcomes == Pick(BOOLEAN, {TRUE})
\* A boolean option of a call.
Flags == Pick(BOOLEAN, {FALSE})
\* The branch, suffix and track mode arguments of CreateWorktree.
CallBranches == Pick(CreateBranches, {BranchSlash})
CallSuffixes == Pick(Suffixes, {NoName})
\* The identifiers of ResolveTarget, and those of Remove.
CallIdentifiers == Pick(Identifiers, {MainIdentifier, BranchSlash})
RemoveIdentifiers == Pick(Identifiers \ {NameDash, OrphanName}, {MainIdentifier, BranchSlash})

LockFiles == {"wr.lock", "gtr.lock"}

\* The lock file each operation takes under common_dir.
CreateLockFile == "wr.lock"
RemoveLockFile == "gtr.lock"
CleanLockFile == "wr.lock"

TrackModes == {"auto", "remote", "local", "none"}
RawTrackModes == TrackModes \cup {"", "bogus"}
ConfirmResults == {"true", "false", "error"}

\* What one pass of the loop of Remove did with one identifier.
\* The pass with the postRemove hooks run from the worktree that was removed.
IterHookInWorktree(id, res, rm, removed, calls, answer, del, hook, e) ==
    [id |-> id, resolveErr |-> res.err, target |-> res.target, rmIssued |-> rm,
     removed |-> removed, confirmCalls |-> calls, answer |-> answer, delIssued |-> del, hookRun |-> hook,
     hookDir |-> IF hook THEN res.target.path ELSE NoPath,
     hookEnv |-> IF hook THEN [REPO_ROOT |-> MainRoot, WORKTREE_PATH |-> res.target.path,
                               BRANCH |-> res.target.branch]
                 ELSE <<>>,
     err |-> e]

\* hookDir, hookEnv: the directory and the environment runHooks is given.
Iter(id, res, rm, removed, calls, answer, del, hook, e) ==
    [id |-> id, resolveErr |-> res.err, target |-> res.target, rmIssued |-> rm,
     removed |-> removed, confirmCalls |-> calls, answer |-> answer, delIssued |-> del, hookRun |-> hook,
     hookDir |-> IF hook THEN MainRoot ELSE NoPath,
     hookEnv |-> IF hook THEN [REPO_ROOT |-> MainRoot, WORKTREE_PATH |-> res.target.path,
                               BRANCH |-> res.target.branch]
                 ELSE <<>>,
     err |-> e]

\* RemoveWorktreeOptions as far as Remove has read them; yes is opts.Yes || m.yes.
NoOpts == [read |-> FALSE, deleteBranch |-> FALSE, yes |-> FALSE, hasConfirm |-> FALSE]
RemoveOpts(deleteBranch, optYes, mgrYes, hasConfirm) ==
    [read |-> TRUE, deleteBranch |-> deleteBranch, yes |-> optYes \/ mgrYes,
     hasConfirm |-> hasConfirm]

NoIter == Iter(NoName, ResolveFailed("nil"), FALSE, FALSE, 0, "none", FALSE, FALSE, "nil")

Idle ==
    [op |-> "idle", pc |-> "idle", err |-> "nil", acquired |-> FALSE,
     \* CreateWorktree
     branch |-> NoName, suffix |-> NoName, force |-> FALSE, mode |-> "", name |-> NoName, fromRef |-> NoName,
     remoteExists |-> FALSE, localExists |-> FALSE, addKind |-> "", retried |-> FALSE,
     added |-> FALSE, cmds |-> <<>>,
     \* Remove
     n |-> 0, opts |-> NoOpts, done |-> 0, last |-> NoIter, errs |-> <<>>,
     \* Clean
     removed |-> {},
     \* ResolveTarget and results
     identifier |-> NoName, target |-> NoTarget]

\* A command handed to the VCS runner, the copier or the hook runner.
Cmd(kind, path, branch, start, force) ==
    [kind |-> kind, path |-> path, branch |-> branch, start |-> start, force |-> force]

\* A start point of `worktree add -b`: origin/<name> or the ref <name>.
NoStart == [remote |-> FALSE, name |-> NoName]
RemoteStart(b) == [remote |-> TRUE, name |-> b]
RefStart(r) == [remote |-> FALSE, name |-> r]

Released(p) == [f \in LockFiles |-> IF lockHeld[f] = p THEN NoProc ELSE lockHeld[f]]

\* The operation returns rec and keeps the lock file locked.
FinishKeepsLock(p, rec) ==
    /\ proc' = [proc EXCEPT ![p] = [rec EXCEPT !.pc = "done"]]
    /\ lockHeld' = lockHeld

\* The operation returns rec: its deferred Release runs as it returns.
Finish(p, rec) ==
    /\ proc' = [proc EXCEPT ![p] = [rec EXCEPT !.pc = "done"]]
    /\ lockHeld' = Released(p)

Goto(p, rec) == proc' = [proc EXCEPT ![p] = rec]

\* lock.Acquire succeeds once the file is free.
Acquire(p, file, nextPc) ==
    /\ lockHeld[file] = NoProc
    /\ lockHeld' = [lockHeld EXCEPT ![file] = p]
    /\ Goto(p, [proc[p] EXCEPT !.pc = nextPc, !.acquired = TRUE])

\* lock.Acquire gives up while another holder keeps the file: when the deadline
\* of its context passes, TryLockContext returns the context's error, which
\* Acquire returns wrapped.  ErrAcquireTimeout is returned for a false result
\* without an error only.
AcquireTimeout(p, file) ==
    /\ lockHeld[file] \notin {NoProc, p}
    /\ Finish(p, [proc[p] EXCEPT !.err = "deadline_exceeded"])

----------------------------------------------------------------------------
(* What the VCS does with the commands it is given.                         *)

\* `git worktree add` refuses a path that is registered or a non-empty directory.
PathFree(name) ==
    /\ ~meta[name].present
    /\ ~BaseDirPresent \/ dirs[name] \in {"absent", "empty"}

StartResolvable(start) ==
    IF start.remote THEN start.name \in remotes ELSE start.name \in heads

\* git worktree add [--force] <path> <branch>
GitCanAdd(name, b, force) ==
    /\ PathFree(name)
    /\ b \in heads \/ b \in remotes
    /\ force \/ ~CheckedOut(b)

\* git worktree add [--force] <path> -b <branch> <start>
GitCanAddNew(name, b, start) ==
    /\ PathFree(name)
    /\ b \notin heads
    /\ StartResolvable(start)

\* git worktree remove [--force] <path>
GitCanRemove(path) ==
    /\ path.root = "base"
    /\ meta[path.name].present /\ meta[path.name].complete
    /\ BaseDirPresent /\ dirs[path.name] = "wt"

\* git branch -D <branch>, after the worktree at `gone` has been removed.
GitCanDeleteBranch(b, gone) ==
    /\ b \in heads
    /\ b # MainBranch
    /\ ~\E n \in AllNames \ {gone} : meta[n].present /\ meta[n].branch = b

----------------------------------------------------------------------------
(* Default-branch resolution.                                               *)

BranchMaster == <<"m", "a", "s", "t", "e", "r">>

\* DefaultBranchAuto with a symbolic origin/HEAD that points outside
\* refs/remotes/origin/ treated as an absent one.
DefaultBranchAutoOriginOnly(originHead, rem) ==
    LET t == originHead.target
        prefix == <<"refs/", "remotes/", "origin/">>
    IN  IF originHead.kind = "symbolic" /\ HasPrefix(t, prefix)
            THEN SubSeq(t, Len(prefix) + 1, Len(t))
        ELSE IF BranchMain \in rem THEN BranchMain
        ELSE IF BranchMaster \in rem THEN BranchMaster
        ELSE BranchMain

\* gitx.DefaultBranchAuto: origin/HEAD when symbolic, else origin/main, else
\* origin/master, else "main".  originHead.target: the reference origin/HEAD
\* points to, its leading path elements "refs/", "heads/", ... one element
\* each.  ReferenceName.Short cuts refs/heads/, refs/tags/ or refs/remotes/,
\* else refs/, from the front of the name.
DefaultBranchAuto(originHead, rem) ==
    LET t == originHead.target
        prefix == <<"refs/", "remotes/", "origin/">>
        short == IF \E k \in {"heads/", "tags/", "remotes/"} : HasPrefix(t, <<"refs/", k>>)
                     THEN SubSeq(t, 3, Len(t))
                 ELSE IF HasPrefix(t, <<"refs/">>) THEN SubSeq(t, 2, Len(t))
                 ELSE t
    IN  IF originHead.kind = "symbolic"
            THEN IF HasPrefix(t, prefix) THEN SubSeq(t, Len(prefix) + 1, Len(t))
                 ELSE short
        ELSE IF BranchMain \in rem THEN BranchMain
        ELSE IF BranchMaster \in rem THEN BranchMaster
        ELSE BranchMain

\* origin/HEAD of the repository: absent.
OriginHEAD == [kind |-> "absent", target |-> NoName]

\* Manager.resolveDefaultBranch with defaultBranch unset.
resolveDefaultBranch(rem) == DefaultBranchAuto(OriginHEAD, rem)

----------------------------------------------------------------------------
(* Manager.CreateWorktree.                                                  *)

NormalMode(rawMode) == IF rawMode = "" THEN "auto" ELSE rawMode

\* The preconditions without the check of force against the suffix.
ValidateNoForce(branch, force, suffix, rawMode) ==
    IF branch = NoName THEN "branch_required"
    ELSE IF NormalMode(rawMode) \notin TrackModes THEN "invalid_track_mode"
    ELSE "nil"

\* The preconditions checked before anything else is touched.
Validate(branch, force, suffix, rawMode) ==
    IF branch = NoName THEN "branch_required"
    ELSE IF force /\ suffix = NoName THEN "force_requires_name"
    ELSE IF NormalMode(rawMode) \notin TrackModes THEN "invalid_track_mode"
    ELSE "nil"

CreateCall(p) ==
    /\ proc[p].op = "idle"
    /\ opsLeft > 0
    /\ opsLeft' = opsLeft - 1
    /\ \E branch \in CallBranches, suffix \in CallSuffixes, force \in Flags,
          rawMode \in Pick(RawTrackModes, {""}) :
        LET rec == [Idle EXCEPT !.op = "create", !.branch = branch, !.suffix = suffix,
                                !.force = force, !.mode = NormalMode(rawMode),
                                !.err = Validate(branch, force, suffix, rawMode)]
        IN  IF rec.err # "nil"
                THEN Finish(p, rec)
                ELSE Goto(p, [rec EXCEPT !.pc = "c_stat"]) /\ UNCHANGED lockHeld
    /\ UNCHANGED created
    /\ UNCHANGED <<world, baseDirExists, dirs, meta, heads, remotes>>
    /\ UNCHANGED <<config, tool>>

\* ResolvePaths, the worktree path, the already-exists check and MkdirAll(base).
CreateStat(p) ==
    /\ proc[p].op = "create" /\ proc[p].pc = "c_stat"
    /\ LET r == proc[p]
           name == world.prefix \o WorktreeName(r.branch, r.suffix)
           rec == [r EXCEPT !.name = name,
                            !.cmds = Append(@, Cmd("config_get", NoPath, NoName, NoStart, FALSE))]
       IN  IF PathExists(JoinBase(name))
               THEN /\ Finish(p, [rec EXCEPT !.err = "worktree_already_exists"])
                    /\ UNCHANGED baseDirExists
               ELSE /\ Goto(p, [rec EXCEPT !.pc = "c_lock"])
                    /\ baseDirExists' = TRUE
                    /\ UNCHANGED lockHeld
    /\ UNCHANGED created
    /\ UNCHANGED <<world, dirs, meta, heads, remotes, opsLeft>>
    /\ UNCHANGED <<config, tool>>

CreateLock(p) ==
    /\ proc[p].op = "create" /\ proc[p].pc = "c_lock"
    /\ Acquire(p, CreateLockFile, "c_refs")
    /\ UNCHANGED created
    /\ UNCHANGED <<world, baseDirExists, dirs, meta, heads, remotes, opsLeft>>
    /\ UNCHANGED <<config, tool>>

CreateLockTimeout(p) ==
    /\ proc[p].op = "create" /\ proc[p].pc = "c_lock"
    /\ AcquireTimeout(p, CreateLockFile)
    /\ UNCHANGED created
    /\ UNCHANGED <<world, baseDirExists, dirs, meta, heads, remotes, opsLeft>>
    /\ UNCHANGED <<config, tool>>

\* from_ref: explicit, else the current branch of main when asked for and not
\* detached, else the default branch.
ResolveFromRef(optFromRef, fromCurrent, rem) ==
    IF optFromRef # NoName THEN optFromRef
    ELSE IF fromCurrent /\ MainBranch # DetachedBranch THEN MainBranch
    ELSE resolveDefaultBranch(rem)

\* Best-effort fetch, from_ref, and the two show-ref probes.
CreateRefs(p) ==
    /\ proc[p].op = "create" /\ proc[p].pc = "c_refs"
    /\ \E noFetch \in Flags, fetchOK \in Outcomes,
          optFromRef \in Pick({NoName, BranchSlash}, {NoName}), fromCurrent \in Flags,
          vcsOK \in Outcomes :
        LET r == proc[p]
            rem == IF ~noFetch /\ fetchOK THEN OriginHeads ELSE remotes
        IN  /\ remotes' = rem
            /\ IF ~vcsOK
                   THEN Finish(p, [r EXCEPT !.err = "vcs_error"])
                   ELSE /\ Goto(p, [r EXCEPT
                                !.pc = "c_strategy",
                                !.fromRef = ResolveFromRef(optFromRef, fromCurrent, rem),
                                !.remoteExists = r.branch \in rem,
                                !.localExists = r.branch \in heads])
                        /\ UNCHANGED lockHeld
    /\ UNCHANGED created
    /\ UNCHANGED <<world, baseDirExists, dirs, meta, heads, opsLeft>>
    /\ UNCHANGED <<config, tool>>

StrategyFail(e) == [fail |-> e, track |-> FALSE, addKind |-> ""]
StrategyPlan(track, addKind) == [fail |-> "nil", track |-> track, addKind |-> addKind]

\* The switch with the auto case testing the remote ref alone.
StrategyAutoRemoteFirst(mode, remoteExists, localExists) ==
    CASE mode = "remote" ->
            IF ~remoteExists THEN StrategyFail("remote_branch_missing")
            ELSE IF localExists THEN StrategyPlan(FALSE, "add")
            ELSE StrategyPlan(FALSE, "addNewTrack")
      [] mode = "local" ->
            IF ~localExists THEN StrategyFail("local_branch_missing")
            ELSE StrategyPlan(FALSE, "add")
      [] mode = "none" -> StrategyPlan(FALSE, "addNew")
      [] mode = "auto" ->
            IF remoteExists THEN StrategyPlan(TRUE, "add")
            ELSE IF localExists THEN StrategyPlan(FALSE, "add")
            ELSE StrategyPlan(FALSE, "addNew")

\* The switch on trackMode: what CreateWorktree does first.
Strategy(mode, remoteExists, localExists) ==
    CASE mode = "remote" ->
            IF ~remoteExists THEN StrategyFail("remote_branch_missing")
            ELSE IF localExists THEN StrategyPlan(FALSE, "add")
            ELSE StrategyPlan(FALSE, "addNewTrack")
      [] mode = "local" ->
            IF ~localExists THEN StrategyFail("local_branch_missing")
            ELSE StrategyPlan(FALSE, "add")
      [] mode = "none" -> StrategyPlan(FALSE, "addNew")
      [] mode = "auto" ->
            IF remoteExists /\ ~localExists THEN StrategyPlan(TRUE, "add")
            ELSE IF localExists THEN StrategyPlan(FALSE, "add")
            ELSE StrategyPlan(FALSE, "addNew")

\* The strategy is selected; auto with only the remote ref first runs
\* `git branch --track` and ignores its result.
CreateStrategy(p) ==
    /\ proc[p].op = "create" /\ proc[p].pc = "c_strategy"
    /\ LET r == proc[p]
           st == Strategy(r.mode, r.remoteExists, r.localExists)
       IN  IF st.fail # "nil"
               THEN Finish(p, [r EXCEPT !.err = st.fail]) /\ UNCHANGED heads
           ELSE IF st.track
               THEN /\ \E ok \in Outcomes :
                        heads' = IF ok /\ r.branch \in remotes /\ r.branch \notin heads
                                     THEN heads \cup {r.branch} ELSE heads
                    /\ Goto(p, [r EXCEPT
                            !.pc = "c_add", !.addKind = st.addKind,
                            !.cmds = Append(@, Cmd("branch_track", NoPath, r.branch,
                                                   RemoteStart(r.branch), FALSE))])
                    /\ UNCHANGED lockHeld
           ELSE /\ Goto(p, [r EXCEPT !.pc = "c_add", !.addKind = st.addKind])
                /\ UNCHANGED <<lockHeld, heads>>
    /\ UNCHANGED created
    /\ UNCHANGED <<world, baseDirExists, dirs, meta, remotes, opsLeft>>
    /\ UNCHANGED <<config, tool>>

\* gitWorktreeAdd / gitWorktreeAddNewBranch: the command line.
AddCommand(r) ==
    CASE r.addKind = "add" ->
            Cmd("worktree_add", JoinBase(r.name), r.branch, NoStart, r.force)
      [] r.addKind = "addNew" ->
            Cmd("worktree_add_b", JoinBase(r.name), r.branch, RefStart(r.fromRef), r.force)
      [] r.addKind = "addNewTrack" ->
            Cmd("worktree_add_b", JoinBase(r.name), r.branch, RemoteStart(r.branch), r.force)

GitAccepts(c) ==
    IF c.kind = "worktree_add" THEN GitCanAdd(c.path.name, c.branch, c.force)
    ELSE GitCanAddNew(c.path.name, c.branch, c.start)

\* One `git worktree add` is issued.  A command the VCS accepts leaves the
\* metadata directory made but not yet filled; a failed tracking add of remote
\* mode falls back to adding the existing branch.
CreateAdd(p) ==
    /\ proc[p].op = "create" /\ proc[p].pc = "c_add"
    /\ \E ok \in Outcomes :
        LET r == proc[p]
            c == AddCommand(r)
            rec == [r EXCEPT !.cmds = Append(@, c)]
        IN  IF ok /\ GitAccepts(c)
                THEN /\ meta' = [meta EXCEPT ![r.name] = Row(r.branch, FALSE)]
                     /\ heads' = heads \cup {r.branch}
                     /\ Goto(p, [rec EXCEPT !.pc = "c_adding"])
                     /\ UNCHANGED lockHeld
            ELSE IF r.addKind = "addNewTrack"
                THEN /\ Goto(p, [rec EXCEPT !.addKind = "add", !.retried = TRUE])
                     /\ UNCHANGED <<lockHeld, meta, heads>>
            ELSE /\ Finish(p, [rec EXCEPT !.err = "vcs_exit_error"])
                 /\ UNCHANGED <<meta, heads>>
    /\ UNCHANGED created
    /\ UNCHANGED <<world, baseDirExists, dirs, remotes, opsLeft>>
    /\ UNCHANGED <<config, tool>>

\* `git worktree add` completes: gitdir and HEAD written, the tree checked out.
CreateAdding(p) ==
    /\ proc[p].op = "create" /\ proc[p].pc = "c_adding"
    /\ meta' = [meta EXCEPT ![proc[p].name] = Row(proc[p].branch, TRUE)]
    /\ dirs' = [dirs EXCEPT ![proc[p].name] = "wt"]
    /\ baseDirExists' = TRUE
    /\ Goto(p, [proc[p] EXCEPT !.pc = "c_copy", !.added = TRUE])
    /\ UNCHANGED created
    /\ UNCHANGED <<world, heads, remotes, lockHeld, opsLeft>>
    /\ UNCHANGED <<config, tool>>

\* The seed copier, unless NoCopy.
CreateCopy(p) ==
    /\ proc[p].op = "create" /\ proc[p].pc = "c_copy"
    /\ \E noCopy \in Flags, copyOK \in Outcomes :
        LET r == proc[p]
            rec == [r EXCEPT !.cmds = Append(@, Cmd("copy", JoinBase(r.name), NoName,
                                                    NoStart, FALSE))]
        IN  IF noCopy THEN Goto(p, [r EXCEPT !.pc = "c_hook"]) /\ UNCHANGED lockHeld
            ELSE IF copyOK THEN Goto(p, [rec EXCEPT !.pc = "c_hook"]) /\ UNCHANGED lockHeld
            ELSE Finish(p, [rec EXCEPT !.err = "copy_failed"])
    /\ UNCHANGED created
    /\ UNCHANGED <<world, baseDirExists, dirs, meta, heads, remotes, opsLeft>>
    /\ UNCHANGED <<config, tool>>

\* The postCreate hooks, with the worktree taken away again when they fail.
CreateHookRollback(p) ==
    /\ proc[p].op = "create" /\ proc[p].pc = "c_hook"
    /\ \E hookOK \in Outcomes :
        LET r == proc[p]
            rec == [r EXCEPT !.cmds = Append(@, Cmd("hooks_postCreate", JoinBase(r.name),
                                                    r.branch, NoStart, FALSE))]
        IN  IF hookOK
                THEN /\ Finish(p, [rec EXCEPT
                            !.target = Target(FALSE, JoinBase(r.name), r.branch)])
                     /\ created' = created \cup {r.name}
                     /\ UNCHANGED <<dirs, meta>>
                ELSE /\ Finish(p, [rec EXCEPT !.err = "hook_failed"])
                     /\ meta' = [meta EXCEPT ![r.name] = NoRow]
                     /\ dirs' = [dirs EXCEPT ![r.name] = "absent"]
                     /\ UNCHANGED created
    /\ UNCHANGED <<world, baseDirExists, heads, remotes, opsLeft, config, tool>>

\* The postCreate hooks, then the result.
CreateHook(p) ==
    /\ proc[p].op = "create" /\ proc[p].pc = "c_hook"
    /\ \E hookOK \in Outcomes :
        LET r == proc[p]
            rec == [r EXCEPT !.cmds = Append(@, Cmd("hooks_postCreate", JoinBase(r.name),
                                                    r.branch, NoStart, FALSE))]
        IN  IF hookOK
                THEN /\ Finish(p, [rec EXCEPT
                            !.target = Target(FALSE, JoinBase(r.name), r.branch)])
                     /\ created' = created \cup {r.name}
                ELSE /\ Finish(p, [rec EXCEPT !.err = "hook_failed"])
                     /\ UNCHANGED created
    /\ UNCHANGED <<world, baseDirExists, dirs, meta, heads, remotes, opsLeft>>
    /\ UNCHANGED <<config, tool>>

\* The caller takes the result; the process is free for its next call.
Return(p) ==
    /\ proc[p].pc = "done"
    /\ proc' = [proc EXCEPT ![p] = Idle]
    /\ UNCHANGED created
    /\ UNCHANGED <<world, baseDirExists, dirs, meta, heads, remotes, lockHeld, opsLeft>>
    /\ UNCHANGED <<config, tool>>

----------------------------------------------------------------------------
(* Manager.Remove.                                                          *)

RemoveCall(p) ==
    /\ proc[p].op = "idle"
    /\ opsLeft > 0
    /\ opsLeft' = opsLeft - 1
    /\ \E n \in Pick(0..MaxIds, {1}) :
        LET rec == [Idle EXCEPT !.op = "remove", !.n = n]
        IN  IF n = 0
                THEN Finish(p, [rec EXCEPT !.err = "no_identifiers"])
                ELSE Goto(p, [rec EXCEPT !.pc = "r_lock"]) /\ UNCHANGED lockHeld
    /\ UNCHANGED created
    /\ UNCHANGED <<world, baseDirExists, dirs, meta, heads, remotes>>
    /\ UNCHANGED <<config, tool>>

RemoveLock(p) ==
    /\ proc[p].op = "remove" /\ proc[p].pc = "r_lock"
    /\ Acquire(p, RemoveLockFile, "r_loop")
    /\ UNCHANGED created
    /\ UNCHANGED <<world, baseDirExists, dirs, meta, heads, remotes, opsLeft>>
    /\ UNCHANGED <<config, tool>>

RemoveLockTimeout(p) ==
    /\ proc[p].op = "remove" /\ proc[p].pc = "r_lock"
    /\ AcquireTimeout(p, RemoveLockFile)
    /\ UNCHANGED created
    /\ UNCHANGED <<world, baseDirExists, dirs, meta, heads, remotes, opsLeft>>
    /\ UNCHANGED <<config, tool>>

\* DeleteBranch is set and the target's branch is concrete.
WantsDelete(o, branch) ==
    o.deleteBranch /\ branch # NoName /\ branch # DetachedBranch

\* The confirmation callback consulted whenever one was given.
AsksConfirmAlways(o, branch) == WantsDelete(o, branch) /\ o.hasConfirm

\* The confirmation callback is consulted: not in yes mode, and one was given.
AsksConfirm(o, branch) ==
    WantsDelete(o, branch) /\ ~o.yes /\ o.hasConfirm

\* Whether `git branch -D` is issued, given what the callback answered.
DeletesBranch(o, branch, answer) ==
    WantsDelete(o, branch) /\ (AsksConfirm(o, branch) => answer = "true")

\* The pass ends: a failure is appended to errs and ends the loop.
IterEndBreak(p, o, it) ==
    Goto(p, [proc[p] EXCEPT !.opts = o, !.last = it,
                            !.done = IF it.err = "nil" THEN @ + 1 ELSE proc[p].n,
                            !.errs = IF it.err = "nil" THEN @ ELSE Append(@, it.err)])

\* The pass ends: a failure is appended to errs and the loop goes on.
IterEnd(p, o, it) ==
    Goto(p, [proc[p] EXCEPT !.opts = o, !.done = @ + 1, !.last = it,
                            !.errs = IF it.err = "nil" THEN @ ELSE Append(@, it.err)])

\* The options as the loop reads them after a removal: drawn when first read.
OptsRead(r) ==
    IF r.opts.read THEN {r.opts}
    ELSE {RemoveOpts(d, y, my, c) : d \in Flags, y \in Flags, my \in Flags, c \in Flags}

\* One pass of the loop over the identifiers.
RemoveIter(p) ==
    /\ proc[p].op = "remove" /\ proc[p].pc = "r_loop"
    /\ proc[p].done < proc[p].n
    /\ \E id \in RemoveIdentifiers :
        LET r == proc[p]
            res == ResolveTarget(id)
            t == res.target
        IN  IF res.err # "nil"
                THEN /\ IterEnd(p, r.opts, Iter(id, res, FALSE, FALSE, 0, "none", FALSE,
                                                FALSE, res.err))
                     /\ UNCHANGED <<meta, dirs, heads, created>>
            ELSE IF t.isMain
                THEN /\ IterEnd(p, r.opts, Iter(id, res, FALSE, FALSE, 0, "none", FALSE,
                                                FALSE, "cannot_remove_main"))
                     /\ UNCHANGED <<meta, dirs, heads, created>>
            ELSE \E rmOK \in Outcomes :
                IF ~(rmOK /\ GitCanRemove(t.path))
                    THEN /\ IterEnd(p, r.opts, Iter(id, res, TRUE, FALSE, 0, "none", FALSE,
                                                    FALSE, "vcs_exit_error"))
                         /\ UNCHANGED <<meta, dirs, heads, created>>
                ELSE
                    /\ meta' = [meta EXCEPT ![t.path.name] = NoRow]
                    /\ dirs' = [dirs EXCEPT ![t.path.name] = "absent"]
                    /\ created' = created \ {t.path.name}
                    /\ \E o \in OptsRead(r) :
                       \E answer \in (IF AsksConfirm(o, t.branch)
                                          THEN ConfirmResults ELSE {"none"}),
                          delOK \in Outcomes, hookOK \in Outcomes :
                        LET calls == IF AsksConfirm(o, t.branch) THEN 1 ELSE 0
                            del == DeletesBranch(o, t.branch, answer)
                            hookErr == IF hookOK THEN "nil" ELSE "hook_failed"
                        IN  IF answer = "error"
                                THEN /\ IterEnd(p, o, Iter(id, res, TRUE, TRUE, calls, answer,
                                                           FALSE, FALSE, "confirm_error"))
                                     /\ UNCHANGED heads
                            ELSE IF del /\ ~(delOK /\ GitCanDeleteBranch(t.branch, t.path.name))
                                THEN /\ IterEnd(p, o, Iter(id, res, TRUE, TRUE, calls, answer,
                                                           TRUE, FALSE, "vcs_exit_error"))
                                     /\ UNCHANGED heads
                            ELSE /\ heads' = IF del THEN heads \ {t.branch} ELSE heads
                                 /\ IterEnd(p, o, Iter(id, res, TRUE, TRUE, calls, answer, del,
                                                       TRUE, hookErr))
    /\ UNCHANGED <<world, baseDirExists, remotes, lockHeld, opsLeft>>
    /\ UNCHANGED <<config, tool>>

\* errors.Join(errs...): nil when nothing was collected.
JoinErrors(errs) == IF errs = <<>> THEN "nil" ELSE "joined"

RemoveFinish(p) ==
    /\ proc[p].op = "remove" /\ proc[p].pc = "r_loop"
    /\ proc[p].done = proc[p].n
    /\ Finish(p, [proc[p] EXCEPT !.err = JoinErrors(proc[p].errs)])
    /\ UNCHANGED created
    /\ UNCHANGED <<world, baseDirExists, dirs, meta, heads, remotes, opsLeft>>
    /\ UNCHANGED <<config, tool>>

----------------------------------------------------------------------------
(* Manager.Clean.                                                           *)

CleanCall(p) ==
    /\ proc[p].op = "idle"
    /\ opsLeft > 0
    /\ opsLeft' = opsLeft - 1
    /\ Goto(p, [Idle EXCEPT !.op = "clean", !.pc = "k_lock"])
    /\ UNCHANGED created
    /\ UNCHANGED <<world, baseDirExists, dirs, meta, heads, remotes, lockHeld>>
    /\ UNCHANGED <<config, tool>>

CleanLock(p) ==
    /\ proc[p].op = "clean" /\ proc[p].pc = "k_lock"
    /\ Acquire(p, CleanLockFile, "k_body")
    /\ UNCHANGED created
    /\ UNCHANGED <<world, baseDirExists, dirs, meta, heads, remotes, opsLeft>>
    /\ UNCHANGED <<config, tool>>

CleanLockTimeout(p) ==
    /\ proc[p].op = "clean" /\ proc[p].pc = "k_lock"
    /\ AcquireTimeout(p, CleanLockFile)
    /\ UNCHANGED created
    /\ UNCHANGED <<world, baseDirExists, dirs, meta, heads, remotes, opsLeft>>
    /\ UNCHANGED <<config, tool>>

\* `git worktree prune` drops the rows whose worktree is gone.
Pruned ==
    [n \in AllNames |->
        IF meta[n].present /\ meta[n].complete /\ ~meta[n].locked /\ isPrunableWorktree(n)
            THEN NoRow ELSE meta[n]]

\* The children os.Remove deletes: the empty directories.
EmptyChildren == {n \in BaseChildren : n \in AllNames /\ dirs[n] = "empty"}

\* Clean with only the empty directories named with the prefix removed.
CleanBodyPrefixOnly(p) ==
    /\ proc[p].op = "clean" /\ proc[p].pc = "k_body"
    /\ \E pruneOK \in Outcomes : meta' = IF pruneOK THEN Pruned ELSE meta
    /\ created' = {n \in created : meta'[n].present}
    /\ LET order == SortNames({n \in EmptyChildren : HasPrefix(n, world.prefix)})
       IN  \E failing \in Pick(0..Len(order), {0}) :
            LET gone == IF failing = 0 THEN {n \in EmptyChildren : HasPrefix(n, world.prefix)}
                        ELSE {order[i] : i \in 1..(failing - 1)}
            IN  /\ dirs' = [n \in AllNames |-> IF n \in gone THEN "absent" ELSE dirs[n]]
                /\ Finish(p, IF failing = 0
                                THEN [proc[p] EXCEPT !.removed = {JoinBase(n) : n \in gone}]
                                ELSE [proc[p] EXCEPT !.err = "remove_error"])
    /\ UNCHANGED <<world, baseDirExists, heads, remotes, opsLeft>>
    /\ UNCHANGED <<config, tool>>

\* Best-effort prune, then the empty child directories of base_dir are removed
\* in os.ReadDir order.  failing: the os.Remove call that fails, 0 for none;
\* Clean then returns that error and an empty result.
CleanBody(p) ==
    /\ proc[p].op = "clean" /\ proc[p].pc = "k_body"
    /\ \E pruneOK \in Outcomes : meta' = IF pruneOK THEN Pruned ELSE meta
    /\ created' = {n \in created : meta'[n].present}
    /\ LET order == SortNames(EmptyChildren)
       IN  \E failing \in Pick(0..Len(order), {0}) :
            LET gone == IF failing = 0 THEN EmptyChildren
                        ELSE {order[i] : i \in 1..(failing - 1)}
            IN  /\ dirs' = [n \in AllNames |-> IF n \in gone THEN "absent" ELSE dirs[n]]
                /\ Finish(p, IF failing = 0
                                THEN [proc[p] EXCEPT !.removed = {JoinBase(n) : n \in gone}]
                                ELSE [proc[p] EXCEPT !.err = "remove_error"])
    /\ UNCHANGED <<world, baseDirExists, heads, remotes, opsLeft>>
    /\ UNCHANGED <<config, tool>>

----------------------------------------------------------------------------
(* ResolveTarget called on its own, and the world outside the program.      *)

ResolveCall(p) ==
    /\ proc[p].op = "idle"
    /\ opsLeft > 0
    /\ opsLeft' = opsLeft - 1
    /\ \E id \in CallIdentifiers :
        LET res == ResolveTarget(id)
        IN  Finish(p, [Idle EXCEPT !.op = "resolve", !.identifier = id,
                                   !.err = res.err, !.target = res.target])
    /\ UNCHANGED created
    /\ UNCHANGED <<world, baseDirExists, dirs, meta, heads, remotes>>
    /\ UNCHANGED <<config, tool>>

AllIdle == \A p \in DOMAIN proc : proc[p].op = "idle"

\* Somebody makes an empty directory, or a regular file, under the base
\* directory, between calls; its name need not start with the prefix.
EnvMkdir ==
    /\ opsLeft > 0
    /\ AllIdle
    /\ opsLeft' = opsLeft - 1
    /\ \E n \in Pick({world.prefix \o OrphanName, OrphanName}, {world.prefix \o OrphanName}),
          kind \in Pick({"empty", "file"}, {"empty"}) :
        /\ JoinBase(n) # MainRoot
        /\ ~BaseDirPresent \/ dirs[n] = "absent"
        /\ ~meta[n].present
        /\ dirs' = [dirs EXCEPT ![n] = kind]
    /\ baseDirExists' = TRUE
    /\ UNCHANGED created
    /\ UNCHANGED <<world, meta, heads, remotes, lockHeld, proc>>
    /\ UNCHANGED <<config, tool>>

\* Somebody deletes the directory of a linked worktree, between calls.
EnvRemoveDir ==
    /\ opsLeft > 0
    /\ AllIdle
    /\ opsLeft' = opsLeft - 1
    /\ \E n \in AllNames :
        /\ BaseDirPresent /\ dirs[n] = "wt"
        /\ dirs' = [dirs EXCEPT ![n] = "absent"]
    /\ UNCHANGED created
    /\ UNCHANGED <<world, baseDirExists, meta, heads, remotes, lockHeld, proc>>
    /\ UNCHANGED <<config, tool>>

\* Somebody detaches HEAD in a linked worktree, between calls.
EnvDetach ==
    /\ opsLeft > 0
    /\ AllIdle
    /\ opsLeft' = opsLeft - 1
    /\ \E n \in AllNames :
        /\ meta[n].present /\ meta[n].complete /\ meta[n].branch # DetachedBranch
        /\ BaseDirPresent /\ dirs[n] = "wt"
        /\ meta' = [meta EXCEPT ![n].branch = DetachedBranch]
    /\ UNCHANGED created
    /\ UNCHANGED <<world, baseDirExists, dirs, heads, remotes, lockHeld, proc>>
    /\ UNCHANGED <<config, tool>>

----------------------------------------------------------------------------
(* The configuration resolver and the config mutators.  One key is followed; *)
(* a value is a sequence of characters, a scope the sequence of the values   *)
(* the key has there.                                                        *)

\* No value anywhere: no .gtrconfig file, the environment variable not set.
NoConfig ==
    [local |-> <<>>, global |-> <<>>, system |-> <<>>,
     file |-> [exists |-> FALSE, vals |-> <<>>],
     env |-> [set |-> FALSE, value |-> <<>>]]
NoTool == [op |-> "none", in |-> <<>>, out |-> <<>>, log |-> <<>>]

\* gitcmd.Run of `git config --get-all`: every value on a line of its own, one
\* trailing newline cut off the capture.  A missing key prints nothing.
GitStdout(vals) ==
    LET RECURSIVE Lines(_)
        Lines(vs) == IF vs = <<>> THEN <<>> ELSE Head(vs) \o <<"\n">> \o Lines(Tail(vs))
        out == Lines(vals)
    IN  IF out # <<>> /\ out[Len(out)] = "\n" THEN SubSeq(out, 1, Len(out) - 1) ELSE out

\* strings.TrimSpace
TrimSpace(s) == TrimRight(TrimLeft(s, {" ", "\n"}), {" ", "\n"})

\* strings.Split(s, "\n")
RECURSIVE Split(_)
Split(s) ==
    IF \A i \in 1..Len(s) : s[i] # "\n" THEN <<s>>
    ELSE LET k == CHOOSE i \in 1..Len(s) : s[i] = "\n" /\ \A j \in 1..(i - 1) : s[j] # "\n"
         IN  <<SubSeq(s, 1, k - 1)>> \o Split(SubSeq(s, k + 1, Len(s)))

\* Resolver.get: `git config --get` prints the last value of the key; exit
\* code 1 (no such key) gives "".
get(vals) ==
    IF vals = <<>> THEN <<>> ELSE TrimSpace(GitStdout(<<vals[Len(vals)]>>))

\* Resolver.getAll / getAllFile
getAll(vals) ==
    IF vals = <<>> THEN <<>>
    ELSE LET out == GitStdout(vals)
             cut == IF out # <<>> /\ out[Len(out)] = "\n"
                        THEN SubSeq(out, 1, Len(out) - 1) ELSE out
         IN  IF TrimSpace(out) = <<>> THEN <<>> ELSE Split(cut)

\* Default asking the global scope before the file scope.
DefaultGlobalFirst(local, fileKey, file, global, system, envName, env, fallback) ==
    LET fv == IF file.exists THEN get(file.vals) ELSE <<>>
    IN  IF get(local) # <<>> THEN get(local)
        ELSE IF get(global) # <<>> THEN get(global)
        ELSE IF fileKey /\ fv # <<>> THEN fv
        ELSE IF get(system) # <<>> THEN get(system)
        ELSE IF envName /\ env.set /\ env.value # <<>> THEN env.value
        ELSE fallback

\* Resolver.Default over the sources: local, file scope, global, system, the
\* environment and the fallback.  getFile and getAllFile read nothing from a
\* missing file; lookupEnv tells whether the variable is set.
Default(local, fileKey, file, global, system, envName, env, fallback) ==
    LET fv == IF file.exists THEN get(file.vals) ELSE <<>>
    IN  IF get(local) # <<>> THEN get(local)
        ELSE IF fileKey /\ fv # <<>> THEN fv
        ELSE IF get(global) # <<>> THEN get(global)
        ELSE IF get(system) # <<>> THEN get(system)
        ELSE IF envName /\ env.set /\ env.value # <<>> THEN env.value
        ELSE fallback

\* appendUnique keeping repeated values.
appendAll(out, values) == out \o SelectSeq(values, LAMBDA v : v # <<>>)

\* appendUnique of Resolver.All
RECURSIVE appendUnique(_, _)
appendUnique(out, values) ==
    IF values = <<>> THEN out
    ELSE LET v == Head(values)
         IN  IF v = <<>> \/ \E i \in 1..Len(out) : out[i] = v
                 THEN appendUnique(out, Tail(values))
                 ELSE appendUnique(Append(out, v), Tail(values))

\* Resolver.All
All(local, fileKey, file, global, system) ==
    LET l == appendUnique(<<>>, getAll(local))
        f == IF fileKey /\ file.exists THEN appendUnique(l, getAll(file.vals)) ELSE l
        g == appendUnique(f, getAll(global))
    IN  appendUnique(g, getAll(system))

\* ConfigGet cutting a further trailing newline off the capture, as getAll does.
ConfigGetCut(vals) == getAll(vals)

\* Manager.ConfigGet: the capture split by newline, nil when it is empty.
ConfigGet(vals) ==
    IF vals = <<>> \/ GitStdout(vals) = <<>> THEN <<>> ELSE Split(GitStdout(vals))

\* What `git config` does to the values of the key in one scope, and its exit
\* code: a plain set refuses a key with several values, --unset-all a key
\* with none (both exit 5).
GitConfig(op, vals, v) ==
    CASE op = "set" -> IF Len(vals) > 1 THEN [vals |-> vals, exit |-> 5]
                                        ELSE [vals |-> <<v>>, exit |-> 0]
      [] op = "add" -> [vals |-> Append(vals, v), exit |-> 0]
      [] op = "unset" -> IF vals = <<>> THEN [vals |-> vals, exit |-> 5]
                                        ELSE [vals |-> <<>>, exit |-> 0]

\* Resolver.Set, Add and Unset: the command, and its error unless the exit
\* code is 0 (Unset lets exit code 1 pass too).
Mutate(op, scope, v) ==
    LET r == GitConfig(op, config[scope], v)
        err == IF r.exit = 0 THEN "nil" ELSE "vcs_exit_error"
    IN  /\ opsLeft > 0
        /\ opsLeft' = opsLeft - 1
        /\ config' = [config EXCEPT ![scope] = r.vals]
        /\ tool' = [op |-> op, in |-> [scope |-> scope, value |-> v], out |-> [err |-> err],
                    log |-> Append(tool.log, [op |-> op, scope |-> scope, value |-> v,
                                              err |-> err, before |-> config[scope]])]
        /\ UNCHANGED <<world, baseDirExists, dirs, meta, heads, remotes, lockHeld, proc,
                       created>>

ConfigSet == \E scope \in {"local", "global"}, v \in {<<>>, <<"a">>} : Mutate("set", scope, v)

ConfigAdd == \E scope \in {"local", "global"}, v \in {<<" ">>, <<"a">>} : Mutate("add", scope, v)

ConfigUnset == \E scope \in {"local", "global"} : Mutate("unset", scope, <<>>)

\* A call that reads: the log of the mutators stays.
Reads(op, in, out) ==
    /\ tool' = [tool EXCEPT !.op = op, !.in = in, !.out = out]
    /\ UNCHANGED <<world, baseDirExists, dirs, meta, heads, remotes, lockHeld, proc,
                   created, opsLeft, config>>

ConfigGetCall ==
    \E scope \in {"local", "global"} :
        Reads("get", [scope |-> scope], [err |-> "nil", values |-> ConfigGet(config[scope])])

DefaultCall ==
    \E fileKey \in BOOLEAN, envName \in BOOLEAN :
        LET in == [local |-> config.local, fileKey |-> fileKey, file |-> config.file,
                   global |-> config.global, system |-> config.system,
                   envName |-> envName, env |-> config.env, fallback |-> <<"f">>]
        IN  Reads("default", in,
                  [err |-> "nil",
                   value |-> Default(in.local, fileKey, in.file, in.global, in.system,
                                     envName, in.env, in.fallback)])

AllCall ==
    \E fileKey \in BOOLEAN :
        LET in == [local |-> config.local, fileKey |-> fileKey, file |-> config.file,
                   global |-> config.global, system |-> config.system]
        IN  Reads("all", in,
                  [err |-> "nil",
                   values |-> All(in.local, fileKey, in.file, in.global, in.system)])

\* A repository with nothing but its main worktree; the .gtrconfig file, the
\* system scope and the environment are as the run finds them.
ToolInit ==
    /\ world = [prefix |-> PrefixW, base |-> "sibling"]
    /\ baseDirExists = FALSE
    /\ dirs = [n \in AllNames |-> "absent"]
    /\ meta = [n \in AllNames |-> NoRow]
    /\ heads = {MainBranch}
    /\ remotes = {}
    /\ lockHeld = [f \in LockFiles |-> NoProc]
    /\ proc = [p \in {1} |-> Idle]
    /\ created = {}
    /\ opsLeft = MaxOps
    /\ tool = NoTool
    /\ \E file \in {[exists |-> FALSE, vals |-> <<>>],
                     [exists |-> TRUE, vals |-> <<<<"b">>>>],
                     [exists |-> TRUE, vals |-> <<<<"a">>, <<"b">>>>]},
          system \in {<<>>, <<<<"b">>, <<"a">>>>},
          env \in {[set |-> FALSE, value |-> <<>>], [set |-> TRUE, value |-> <<>>],
                   [set |-> TRUE, value |-> <<"e">>]} :
        config = [NoConfig EXCEPT !.file = file, !.system = system, !.env = env]

\* The resolver and the mutators on a fresh repository.
ToolNext ==
    \/ ConfigSet
    \/ ConfigAdd
    \/ ConfigUnset
    \/ ConfigGetCall
    \/ DefaultCall
    \/ AllCall

----------------------------------------------------------------------------
(* The calls that change nothing in the repository's metadata: List, Copy,  *)
(* Run and hooks.Run, made one at a time on a repository as it is found.    *)

\* The caller takes the result of a call, and releases a lock it was given.
ToolReturn ==
    /\ tool.op # "none"
    /\ tool' = [NoTool EXCEPT !.log = tool.log]
    /\ lockHeld' = Released(1)
    /\ UNCHANGED <<world, baseDirExists, dirs, meta, heads, remotes, proc,
                   created, opsLeft, config>>

ListCall ==
    /\ tool.op = "none"
    /\ Reads("list", <<>>, List)

\* Manager.Copy with the prunable entries of the listing kept among the
\* destinations of a copy to all.
CopyAllKeepsPrunable(in, src, listed, res, includes, lock) ==
    LET picked == IF in.all
            THEN SelectSeq(listed.entries,
                           LAMBDA e : /\ ~e.target.isMain
                                      /\ e.status # "missing"
                                      /\ e.target.path # src.target.path)
            ELSE SelectSeq(res, LAMBDA r : r.target.path # src.target.path)
        unresolved == {i \in 1..Len(res) : res[i].err # "nil"}
        err == IF src.err # "nil" THEN src.err
               ELSE IF includes = <<>> THEN "no_patterns"
               ELSE IF in.all /\ ~listed.ok THEN "list_error"
               ELSE IF ~in.all /\ res = <<>> THEN "no_targets"
               ELSE IF ~in.all /\ unresolved # {}
                   THEN res[CHOOSE i \in unresolved : \A j \in unresolved : i <= j].err
               ELSE IF in.failing # 0 /\ in.failing <= Len(picked) THEN "copy_error"
               ELSE "nil"
        made == IF err = "copy_error" THEN in.failing
                ELSE IF err = "nil" THEN Len(picked) ELSE 0
        preservePaths == in.preserve = "true"
    IN  [err |-> err, src |-> src.target,
         calls |-> [i \in 1..made |->
                      [dst |-> picked[i].target.path, preservePaths |-> preservePaths,
                       dryRun |-> in.dryRun,
                       wrote |-> IF in.dryRun THEN {}
                                 ELSE IF preservePaths THEN {<<"d", "/", "f">>}
                                 ELSE {<<"f">>}]],
         results |-> IF err = "nil" THEN [i \in 1..made |-> picked[i].target] ELSE <<>>,
         lock |-> lock]

\* Manager.Copy, given what its calls return: src and res are the results of
\* ResolveTarget for the source and for the identifiers, listed that of List,
\* includes the patterns in force.  One file, d/f, matches the pattern d/f in
\* every source; copy.CopyFiles writes it to the destination under its
\* relative path, or under its base name when PreservePaths is false, and
\* nothing in a dry run.  in.failing: the copy.CopyFiles call that fails, 0 for
\* none.
Copy(in, src, listed, res, includes, lock) ==
    LET picked == IF in.all
            THEN SelectSeq(listed.entries,
                           LAMBDA e : /\ ~e.target.isMain
                                      /\ e.status \notin {"missing", "prunable"}
                                      /\ e.target.path # src.target.path)
            ELSE SelectSeq(res, LAMBDA r : r.target.path # src.target.path)
        unresolved == {i \in 1..Len(res) : res[i].err # "nil"}
        err == IF src.err # "nil" THEN src.err
               ELSE IF includes = <<>> THEN "no_patterns"
               ELSE IF in.all /\ ~listed.ok THEN "list_error"
               ELSE IF ~in.all /\ res = <<>> THEN "no_targets"
               ELSE IF ~in.all /\ unresolved # {}
                   THEN res[CHOOSE i \in unresolved : \A j \in unresolved : i <= j].err
               ELSE IF in.failing # 0 /\ in.failing <= Len(picked) THEN "copy_error"
               ELSE "nil"
        made == IF err = "copy_error" THEN in.failing
                ELSE IF err = "nil" THEN Len(picked) ELSE 0
        \* opts.PreservePaths is a bool: left unset it is false
        preservePaths == in.preserve = "true"
    IN  [err |-> err, src |-> src.target,
         calls |-> [i \in 1..made |->
                      [dst |-> picked[i].target.path, preservePaths |-> preservePaths,
                       dryRun |-> in.dryRun,
                       wrote |-> IF in.dryRun THEN {}
                                 ELSE IF preservePaths THEN {<<"d", "/", "f">>}
                                 ELSE {<<"f">>}]],
         results |-> IF err = "nil" THEN [i \in 1..made |-> picked[i].target] ELSE <<>>,
         lock |-> lock]

CopyCall ==
    /\ tool.op = "none"
    /\ \E from \in {NoName, OrphanName}, all \in BOOLEAN,
          n \in 0..MaxIds, preserve \in {"unset", "true", "false"}, dryRun \in BOOLEAN,
          patterns \in {<<>>, << <<"d", "/", "f">> >>}, failing \in {0, 1} :
       \E targets \in [1..n -> {BranchSlash, NameDash, OrphanName, RepoName}] :
        LET in == [from |-> from, all |-> all, targets |-> targets, preserve |-> preserve,
                   dryRun |-> dryRun, patterns |-> patterns, failing |-> failing]
        IN  /\ all => n = 0
            /\ patterns = <<>> => (n = 0 /\ preserve = "unset" /\ ~dryRun /\ failing = 0)
            /\ dryRun => preserve = "true"
            /\ Reads("copy", in,
                     Copy(in,
                          ResolveTarget(IF from = NoName THEN MainIdentifier ELSE from),
                          List,
                          [i \in 1..n |-> ResolveTarget(targets[i])],
                          IF patterns # <<>> THEN patterns
                          ELSE All(config.local, TRUE, config.file, config.global,
                                   config.system),
                          lockHeld[CreateLockFile]))

\* Manager.Run with a non-zero exit of the child returned as an error.
RunCallExitIsError ==
    /\ tool.op = "none"
    /\ \E argv \in {<<>>, <<"cmd">>}, identifier \in {MainIdentifier, BranchSlash, OrphanName},
          child \in {"exit 0", "exit 3", "cannot start"} :
        LET in == [argv |-> argv, identifier |-> identifier, child |-> child]
            target == ResolveTarget(identifier)
            out(code, err, spawned) ==
                [code |-> code, err |-> err, spawned |-> spawned,
                 dir |-> IF spawned THEN target.target.path ELSE NoPath]
        IN  IF argv = <<>> THEN Reads("run", in, out(1, "no_command", FALSE))
            ELSE IF target.err # "nil" THEN Reads("run", in, out(1, target.err, FALSE))
            ELSE IF child = "cannot start" \/ ~PathExists(target.target.path)
                THEN Reads("run", in, out(1, "start_error", FALSE))
            ELSE IF child = "exit 0" THEN Reads("run", in, out(0, "nil", TRUE))
            ELSE Reads("run", in, out(3, "exit_error", TRUE))

\* Manager.Run.  child: how the command ends once exec is asked to start it;
\* exec cannot start it in a directory that does not exist.
RunCall ==
    /\ tool.op = "none"
    /\ \E argv \in {<<>>, <<"cmd">>}, identifier \in {MainIdentifier, BranchSlash, OrphanName},
          child \in {"exit 0", "exit 3", "cannot start"} :
        LET in == [argv |-> argv, identifier |-> identifier, child |-> child]
            target == ResolveTarget(identifier)
            out(code, err, spawned) ==
                [code |-> code, err |-> err, spawned |-> spawned,
                 dir |-> IF spawned THEN target.target.path ELSE NoPath]
        IN  IF argv = <<>> THEN Reads("run", in, out(1, "no_command", FALSE))
            ELSE IF target.err # "nil" THEN Reads("run", in, out(1, target.err, FALSE))
            ELSE IF child = "cannot start" \/ ~PathExists(target.target.path)
                THEN Reads("run", in, out(1, "start_error", FALSE))
            ELSE IF child = "exit 0" THEN Reads("run", in, out(0, "nil", TRUE))
            ELSE Reads("run", in, out(3, "nil", TRUE))

\* hooks.Run with the index of a HookError counted among the hooks started.
HooksCallIndexOfStarted ==
    /\ tool.op = "none"
    /\ \E phase \in {"postCreate", "postRemove"}, n \in 0..MaxHooks :
       \E hooks \in [1..n -> {"", "true", "exit 1", "exit 2"}] :
        LET exit(h) == CASE h = "exit 1" -> 1 [] h = "exit 2" -> 2 [] OTHER -> 0
            failed == {i \in 1..n : hooks[i] # "" /\ exit(hooks[i]) # 0}
            stop == IF failed = {} THEN n
                    ELSE CHOOSE i \in failed : \A j \in failed : i <= j
            started == SelectSeq([i \in 1..stop |-> i], LAMBDA i : hooks[i] # "")
        IN  Reads("hooks", [phase |-> phase, hooks |-> hooks],
                  IF failed = {}
                      THEN [err |-> "nil", started |-> started]
                      ELSE [err |-> "hook_error", started |-> started, phase |-> phase,
                            index |-> Len(started), command |-> hooks[stop],
                            exitCode |-> exit(hooks[stop])])

\* hooks.Run.  The hooks are shell commands; the empty string is skipped.
HooksCall ==
    /\ tool.op = "none"
    /\ \E phase \in {"postCreate", "postRemove"}, n \in 0..MaxHooks :
       \E hooks \in [1..n -> {"", "true", "exit 1", "exit 2"}] :
        LET exit(h) == CASE h = "exit 1" -> 1 [] h = "exit 2" -> 2 [] OTHER -> 0
            failed == {i \in 1..n : hooks[i] # "" /\ exit(hooks[i]) # 0}
            stop == IF failed = {} THEN n
                    ELSE CHOOSE i \in failed : \A j \in failed : i <= j
            started == SelectSeq([i \in 1..stop |-> i], LAMBDA i : hooks[i] # "")
        IN  Reads("hooks", [phase |-> phase, hooks |-> hooks],
                  IF failed = {}
                      THEN [err |-> "nil", started |-> started]
                      ELSE [err |-> "hook_error", started |-> started, phase |-> phase,
                            index |-> stop, command |-> hooks[stop],
                            exitCode |-> exit(hooks[stop])])

\* adapters.Exec with the second attempt made after a failure to start too.
ExecCallRetryAlways ==
    /\ tool.op = "none"
    /\ \E name \in {"cursor", "aider"}, command \in {<<"cursor">>, <<"bin", "cursor">>},
          args \in {<<>>, <<"x">>, <<"cli", "x">>}, mode \in {"run", "start"},
          first \in {"exit 0", "exit 3", "cannot start"},
          second \in {"exit 0", "exit 2", "cannot start"} :
        LET in == [name |-> name, command |-> command, args |-> args, mode |-> mode,
                   first |-> first, second |-> second]
            \* filepath.Base: the last element of the path
            base == command[Len(command)]
            run(a, stderr) == [args |-> a, stderr |-> stderr]
            \* the result of a command that was run to its end
            result(child, runs) ==
                [code |-> CASE child = "exit 0" -> 0 [] child = "exit 2" -> 2
                            [] child = "exit 3" -> 3 [] OTHER -> 1,
                 err |-> CASE child = "exit 0" -> "nil" [] child = "cannot start" -> "start_error"
                           [] OTHER -> "exit_error",
                 runs |-> runs]
        IN  /\ mode = "start" => (second = "exit 0" /\ first # "exit 3")
            /\ IF mode = "start"
                   THEN Reads("exec", in,
                              [code |-> IF first = "cannot start" THEN 1 ELSE 0,
                               err |-> IF first = "cannot start" THEN "start_error" ELSE "nil",
                               runs |-> <<run(args, "normal")>>])
               ELSE IF name = "cursor" /\ base = "cursor" /\ Len(args) > 0 /\ args[1] = "cli"
                   THEN IF first # "exit 0"
                            THEN Reads("exec", in,
                                       result(second, <<run(args, "discard"),
                                                        run(Tail(args), "normal")>>))
                            ELSE Reads("exec", in, result(first, <<run(args, "discard")>>))
               ELSE second = "exit 0" /\ Reads("exec", in, result(first, <<run(args, "normal")>>))

\* adapters.Exec.  first, second: how the first and the second process end.
ExecCall ==
    /\ tool.op = "none"
    /\ \E name \in {"cursor", "aider"}, command \in {<<"cursor">>, <<"bin", "cursor">>},
          args \in {<<>>, <<"x">>, <<"cli", "x">>}, mode \in {"run", "start"},
          first \in {"exit 0", "exit 3", "cannot start"},
          second \in {"exit 0", "exit 2", "cannot start"} :
        LET in == [name |-> name, command |-> command, args |-> args, mode |-> mode,
                   first |-> first, second |-> second]
            \* filepath.Base: the last element of the path
            base == command[Len(command)]
            run(a, stderr) == [args |-> a, stderr |-> stderr]
            \* the result of a command that was run to its end
            result(child, runs) ==
                [code |-> CASE child = "exit 0" -> 0 [] child = "exit 2" -> 2
                            [] child = "exit 3" -> 3 [] OTHER -> 1,
                 err |-> CASE child = "exit 0" -> "nil" [] child = "cannot start" -> "start_error"
                           [] OTHER -> "exit_error",
                 runs |-> runs]
        IN  /\ mode = "start" => (second = "exit 0" /\ first # "exit 3")
            /\ IF mode = "start"
                   THEN Reads("exec", in,
                              [code |-> IF first = "cannot start" THEN 1 ELSE 0,
                               err |-> IF first = "cannot start" THEN "start_error" ELSE "nil",
                               runs |-> <<run(args, "normal")>>])
               ELSE IF name = "cursor" /\ base = "cursor" /\ Len(args) > 0 /\ args[1] = "cli"
                   THEN IF first = "exit 3"
                            THEN Reads("exec", in,
                                       result(second, <<run(args, "discard"),
                                                        run(Tail(args), "normal")>>))
                            ELSE Reads("exec", in, result(first, <<run(args, "discard")>>))
               ELSE second = "exit 0" /\ Reads("exec", in, result(first, <<run(args, "normal")>>))

\* lock.Acquire with the context looked at only when the file is not free.
AcquireCallLockFirst ==
    /\ tool.op = "none"
    /\ \E ctx \in {"live", "cancelled"}, file \in LockFiles :
        LET out == IF lockHeld[file] # NoProc
                       THEN [err |-> "deadline_exceeded", locked |-> FALSE]
                   ELSE [err |-> "nil", locked |-> TRUE]
        IN  /\ tool' = [tool EXCEPT !.op = "acquire", !.in = [ctx |-> ctx, file |-> file],
                                    !.out = out]
            /\ lockHeld' = IF out.locked THEN [lockHeld EXCEPT ![file] = 1] ELSE lockHeld
            /\ UNCHANGED <<world, baseDirExists, dirs, meta, heads, remotes, proc,
                           created, opsLeft, config>>

\* lock.Acquire called by the one caller.  TryLockContext looks at the context
\* before its first attempt to lock the file.
AcquireCall ==
    /\ tool.op = "none"
    /\ \E ctx \in {"live", "cancelled"}, file \in LockFiles :
        LET out == IF ctx = "cancelled" THEN [err |-> "canceled", locked |-> FALSE]
                   ELSE IF lockHeld[file] # NoProc
                       THEN [err |-> "deadline_exceeded", locked |-> FALSE]
                   ELSE [err |-> "nil", locked |-> TRUE]
        IN  /\ tool' = [tool EXCEPT !.op = "acquire", !.in = [ctx |-> ctx, file |-> file],
                                    !.out = out]
            /\ lockHeld' = IF out.locked THEN [lockHeld EXCEPT ![file] = 1] ELSE lockHeld
            /\ UNCHANGED <<world, baseDirExists, dirs, meta, heads, remotes, proc,
                           created, opsLeft, config>>

\* The configuration keys the Manager reads.  One of them is set, in the local
\* scope, to the pattern d/f; read: what each reader gets from Resolver.All, or
\* Resolver.Default, for its key.
KeysCall ==
    /\ tool.op = "none"
    /\ \E set \in {<<"wr", "copy.include">>, <<"gtr", "copy.include">>,
                   <<"wr", "copy.exclude">>, <<"gtr", "copy.exclude">>} :
        LET keys == [createInclude |-> <<"wr", "copy.include">>,
                     createExclude |-> <<"wr", "copy.exclude">>,
                     copyInclude |-> <<"gtr", "copy.include">>,
                     copyExclude |-> <<"gtr", "copy.exclude">>,
                     worktreesDir |-> <<"gtr", "worktrees.dir">>,
                     worktreesPrefix |-> <<"gtr", "worktrees.prefix">>]
            local(k) == IF k = set THEN << <<"d", "/", "f">> >> ELSE <<>>
        IN  Reads("keys", [set |-> set],
                  [keys |-> keys,
                   read |-> [r \in DOMAIN keys |->
                                All(local(keys[r]), FALSE, config.file, config.global,
                                    config.system)]])

\* Manager.resolveDefaultBranch on a repository whose origin/HEAD and remote
\* branches are drawn.  configured: the value of the defaultBranch key in the
\* local scope, NoName for none.
DefaultBranchCall ==
    /\ tool.op = "none"
    /\ \E configured \in {NoName, <<"a", "u", "t", "o">>, <<"x">>},
          rem \in SUBSET {BranchMain, BranchMaster},
          originHead \in {[kind |-> "absent", target |-> NoName],
                          [kind |-> "hash", target |-> NoName]}
                         \cup {[kind |-> "symbolic", target |-> t] :
                                 t \in {<<"refs/", "remotes/", "origin/", "x">>,
                                        <<"refs/", "remotes/", "origin/", "a", "/", "b">>,
                                        <<"refs/", "heads/", "x">>,
                                        <<"refs/", "remotes/", "up/", "x">>}} :
        LET value == Default(IF configured = NoName THEN <<>> ELSE <<configured>>, FALSE,
                             config.file, config.global, config.system, TRUE, config.env,
                             <<"a", "u", "t", "o">>)
        IN  Reads("defaultBranch",
                  [configured |-> configured, rem |-> rem, originHead |-> originHead],
                  [branch |-> IF value # <<"a", "u", "t", "o">> THEN value
                              ELSE DefaultBranchAuto(originHead, rem)])

\* copy.isSafePattern: not absolute, and no ".." path element.  A pattern is
\* the sequence of its path elements and separators.
isSafePattern(pattern) ==
    /\ ~HasPrefix(pattern, <<"/">>)
    /\ ~HasPrefix(pattern, <<"..", "/">>)
    /\ pattern # <<"..">>
    /\ ~\E i \in 1..(Len(pattern) - 2) : SubSeq(pattern, i, i + 2) = <<"/", "..", "/">>
    /\ ~(Len(pattern) >= 2 /\ SubSeq(pattern, Len(pattern) - 1, Len(pattern)) = <<"/", "..">>)

\* copy.CopyFiles from include pattern i and its match k on.  in.files: the
\* regular files of the source root, all at its top level; in.failing: the
\* copyFile call that cannot open its source, 0 for none.  acc.written: the
\* files under the destination root; acc.calls: the copyFile calls so far.  A
\* pattern matches the file it names, "*" every file, in lexical order.
RECURSIVE CopyFiles(_, _, _, _)
CopyFiles(in, i, k, acc) ==
    LET Match(p, rel) == p = <<"*">> \/ p = rel
        excludes == SelectSeq([j \in 1..Len(in.excludes) |-> TrimSpace(in.excludes[j])],
                              LAMBDA p : p # <<>>)
        unique(dst, value) ==
            IF \E j \in 1..Len(dst) : dst[j] = value THEN dst ELSE Append(dst, value)
    IN  IF Len(in.includes) = 0 THEN [acc EXCEPT !.err = "no_patterns"]
        ELSE IF i > Len(in.includes) THEN acc
        ELSE LET rawPattern == TrimSpace(in.includes[i])
                 matches == SortNames({rel \in in.files : Match(rawPattern, rel)})
             IN  IF rawPattern = <<>> THEN CopyFiles(in, i + 1, 1, acc)
                 ELSE IF ~isSafePattern(rawPattern)
                     THEN [acc EXCEPT !.err = "unsafe_pattern", !.copied = <<>>]
                 ELSE IF k > Len(matches) THEN CopyFiles(in, i + 1, 1, acc)
                 ELSE IF in.ctx = "cancelled"
                     THEN [acc EXCEPT !.err = "context_canceled", !.copied = <<>>]
                 ELSE IF \E j \in 1..Len(excludes) :
                             isSafePattern(excludes[j]) /\ Match(excludes[j], matches[k])
                     THEN CopyFiles(in, i, k + 1, acc)
                 ELSE IF in.dryRun
                     THEN CopyFiles(in, i, k + 1,
                                    [acc EXCEPT !.copied = unique(@, matches[k])])
                 ELSE IF acc.calls + 1 = in.failing
                     THEN [acc EXCEPT !.err = "copy_error", !.copied = <<>>,
                                      !.calls = @ + 1]
                 ELSE CopyFiles(in, i, k + 1,
                                [acc EXCEPT !.copied = unique(@, matches[k]),
                                            !.written = @ \cup {matches[k]},
                                            !.calls = @ + 1])

\* A call of copy.CopyFiles into an empty destination root.
CopyFilesCall ==
    /\ tool.op = "none"
    /\ \E n \in 0..2, dryRun \in BOOLEAN, ctx \in {"live", "cancelled"}, failing \in 0..1,
          excludes \in {<<>>, << <<" ">>, <<"a">> >>} :
        \E includes \in [1..n -> {<<"a">>, <<"*">>, <<" ">>, <<"/", "a">>,
                                  <<"..", "/", "a">>}] :
            LET in == [includes |-> includes, excludes |-> excludes, dryRun |-> dryRun,
                       ctx |-> ctx, failing |-> failing, files |-> {<<"a">>, <<"b">>}]
            IN  Reads("copyFiles", in,
                      CopyFiles(in, 1, 1, [err |-> "nil", copied |-> <<>>, written |-> {},
                                           calls |-> 0]))

\* A repository as these calls can find it: at most one linked worktree of
\* branch a/b, at most one directory o under the base directory, which is a
\* worktree of branch 1 or a plain directory.
ViewInit ==
    /\ world \in Worlds \cup {[prefix |-> NoName, base |-> "inside"]}
    /\ heads = {MainBranch, BranchSlash, MainIdentifier}
    /\ remotes = {}
    /\ lockHeld = [f \in LockFiles |-> NoProc]
    /\ proc = [p \in {1} |-> Idle]
    /\ created = {}
    /\ opsLeft = MaxOps
    /\ config = NoConfig
    /\ tool = NoTool
    /\ baseDirExists \in BOOLEAN
    /\ \E rowA \in {NoRow} \cup {[Row(b, TRUE) EXCEPT !.locked = l] :
                                  b \in {BranchSlash, DetachedBranch}, l \in BOOLEAN},
          dirA \in {"absent", "wt"},
          rowB \in {NoRow, Row(MainIdentifier, TRUE)},
          dirB \in {"absent", "empty", "wt"} :
        LET a == world.prefix \o NameDash
            b == world.prefix \o OrphanName
        IN  /\ dirA = "wt" => rowA.present
            /\ dirB = "wt" <=> rowB.present
            /\ baseDirExists <=> (rowA.present \/ dirB # "absent")
            /\ meta = [n \in AllNames |-> IF n = a THEN rowA ELSE IF n = b THEN rowB ELSE NoRow]
            /\ dirs = [n \in AllNames |->
                        IF n = a THEN dirA ELSE IF n = b THEN dirB ELSE "absent"]

ViewNext ==
    \/ ListCall
    \/ CopyCall
    \/ RunCall
    \/ HooksCall
    \/ ExecCall
    \/ AcquireCall
    \/ KeysCall
    \/ DefaultBranchCall
    \/ CopyFilesCall
    \/ ToolReturn

----------------------------------------------------------------------------
(* Specifications.                                                          *)

InitWith(ps) ==
    /\ world \in Worlds
    /\ baseDirExists = FALSE
    /\ dirs = [n \in AllNames |-> "absent"]
    /\ meta = [n \in AllNames |-> NoRow]
    /\ heads = {MainBranch}
    /\ remotes = {}
    /\ lockHeld = [f \in LockFiles |-> NoProc]
    /\ proc = [p \in ps |-> Idle]
    /\ created = {}
    /\ opsLeft = MaxOps
    /\ config = NoConfig
    /\ tool = NoTool

\* Two processes on one repository.
Init == InitWith(Procs)

Next ==
    \/ \E p \in Procs : CreateCall(p)
    \/ \E p \in Procs : CreateStat(p)
    \/ \E p \in Procs : CreateLock(p)
    \/ \E p \in Procs : CreateLockTimeout(p)
    \/ \E p \in Procs : CreateRefs(p)
    \/ \E p \in Procs : CreateStrategy(p)
    \/ \E p \in Procs : CreateAdd(p)
    \/ \E p \in Procs : CreateAdding(p)
    \/ \E p \in Procs : CreateCopy(p)
    \/ \E p \in Procs : CreateHook(p)
    \/ \E p \in Procs : RemoveCall(p)
    \/ \E p \in Procs : RemoveLock(p)
    \/ \E p \in Procs : RemoveLockTimeout(p)
    \/ \E p \in Procs : RemoveIter(p)
    \/ \E p \in Procs : RemoveFinish(p)
    \/ \E p \in Procs : CleanCall(p)
    \/ \E p \in Procs : CleanLock(p)
    \/ \E p \in Procs : CleanLockTimeout(p)
    \/ \E p \in Procs : CleanBody(p)
    \/ \E p \in Procs : ResolveCall(p)
    \/ \E p \in Procs : Return(p)
    \/ EnvMkdir
    \/ EnvRemoveDir
    \/ EnvDetach

Spec == Init /\ [][Next]_vars

\* Two processes whose steps are taken in the end: every command, hook and
\* callback a process waits for terminates, and a wait for the lock ends when
\* its timeout passes.
LiveSpec == Init /\ [][Next]_vars /\ WF_vars(Next)

\* One caller: the operations run one after another.
SeqInit == InitWith({1})

SeqNext ==
    \/ CreateCall(1) \/ CreateStat(1) \/ CreateLock(1) \/ CreateRefs(1)
    \/ CreateStrategy(1) \/ CreateAdd(1) \/ CreateAdding(1) \/ CreateCopy(1)
    \/ CreateHook(1)
    \/ RemoveCall(1) \/ RemoveLock(1) \/ RemoveIter(1) \/ RemoveFinish(1)
    \/ CleanCall(1) \/ CleanLock(1) \/ CleanBody(1)
    \/ ResolveCall(1)
    \/ Return(1)
    \/ EnvMkdir
    \/ EnvRemoveDir
    \/ EnvDetach

SeqSpec == SeqInit /\ [][SeqNext]_vars

\* The configuration calls, one caller.
ToolSpec == ToolInit /\ [][ToolNext]_vars

\* List, Copy, Run and hooks.Run, one caller.
ViewSpec == ViewInit /\ [][ViewNext]_vars

----------------------------------------------------------------------------
(* Properties of the lifecycle.                                             *)

\* The process is between a successful lock.Acquire and its deferred Release.
InLockedSection(p) == proc[p].acquired /\ proc[p].pc # "done"

\* C1: CreateWorktree, Remove and Clean take the same lock file, so no two of
\* them are ever inside their locked sections at the same time.
C1_OneLockedSection ==
    \A p, q \in DOMAIN proc : InLockedSection(p) /\ InLockedSection(q) => p = q

\* The entries of Manager.List, as a set.
Listed == {List.entries[i] : i \in 1..Len(List.entries)}

\* C2 as stated: after create_worktree(b) succeeds the list has an entry with
\* branch b, and after remove([b]), no command, hook or callback having failed,
\* the list has no linked entry with branch b.
C2_RoundTrip ==
    \A p \in DOMAIN proc :
        LET r == proc[p]
        IN  /\ r.op = "create" /\ r.pc = "done" /\ r.err = "nil"
                => List.ok /\ \E e \in Listed : e.target.branch = r.branch
            /\ (/\ r.op = "remove" /\ r.pc = "done" /\ r.n = 1
                /\ r.last.err \notin {"vcs_exit_error", "hook_failed", "confirm_error"})
                => /\ List.ok
                   /\ ~\E e \in Listed :
                        /\ e.target.branch = r.last.id
                        /\ e.target.path \in {BasePath(n) : n \in created}

\* C2 amended: after create_worktree(b) succeeds the list has the returned
\* target, with branch b; after a pass of remove that failed nothing, the list
\* has no entry at the path the identifier resolved to, which is never the
\* main root.
C2_RoundTripAmended ==
    \A p \in DOMAIN proc :
        LET r == proc[p]
        IN  /\ r.op = "create" /\ r.pc = "done" /\ r.err = "nil"
                => /\ List.ok
                   /\ r.target = Target(FALSE, JoinBase(r.name), r.branch)
                   /\ \E e \in Listed : e.target = r.target
            /\ r.op = "remove" /\ r.done > 0 /\ r.last.err = "nil"
                => /\ List.ok
                   /\ r.last.removed
                   /\ r.last.target.path # MainRoot
                   /\ ~\E e \in Listed : e.target.path = r.last.target.path

\* C2 witness: remove(["a/b"]) has returned nil after removing the worktree
\* create_worktree("a/b") made.
C2_Witness ==
    \E p \in DOMAIN proc :
        /\ proc[p].op = "remove" /\ proc[p].pc = "done" /\ proc[p].n = 1
        /\ proc[p].err = "nil"
        /\ proc[p].last.id = BranchSlash
        /\ proc[p].last.removed
        /\ proc[p].last.target = Target(FALSE, BasePath(world.prefix \o NameDash), BranchSlash)

\* The path ResolveTarget computes for an identifier.
CandidatePath(identifier) == JoinBase(world.prefix \o SanitizeBranchName(identifier))

\* A worktree of the repository is at the path: the main one, or a linked one
\* registered and checked out.
WorktreeAt(path) ==
    \/ path = MainRoot
    \/ /\ path.root = "base" /\ BaseDirPresent /\ dirs[path.name] = "wt"
       /\ meta[path.name].present /\ meta[path.name].complete

\* C3 as stated: for a non-empty identifier that is its own sanitized form and
\* has a worktree at base_dir/(prefix + id), ResolveTarget succeeds and returns
\* that path.
C3_ResolveByPath ==
    \A p \in DOMAIN proc :
        LET r == proc[p]
        IN  (/\ r.op = "resolve" /\ r.pc = "done"
             /\ r.identifier # NoName
             /\ r.identifier = SanitizeBranchName(r.identifier)
             /\ WorktreeAt(CandidatePath(r.identifier)))
            => r.err = "nil" /\ r.target.path = CandidatePath(r.identifier)

\* C3 amended: the same, for identifiers other than "1" and the branch checked
\* out in main, which resolve to main before the path is looked at.
C3_ResolveByPathAmended ==
    \A p \in DOMAIN proc :
        LET r == proc[p]
        IN  (/\ r.op = "resolve" /\ r.pc = "done"
             /\ r.identifier \notin {NoName, MainIdentifier, MainBranch}
             /\ r.identifier = SanitizeBranchName(r.identifier)
             /\ WorktreeAt(CandidatePath(r.identifier)))
            => r.err = "nil" /\ r.target.path = CandidatePath(r.identifier)

\* C3 witness: "a-b" resolved to the linked worktree of branch a/b at
\* base_dir/(prefix + "a-b").
C3_Witness ==
    \E p \in DOMAIN proc :
        /\ proc[p].op = "resolve" /\ proc[p].pc = "done"
        /\ proc[p].identifier = NameDash
        /\ proc[p].err = "nil"
        /\ proc[p].target = Target(FALSE, BasePath(world.prefix \o NameDash), BranchSlash)
        /\ WorktreeAt(BasePath(world.prefix \o NameDash))

\* C4: ResolveTarget("1") always succeeds and returns the main repository,
\* whatever the linked-worktree metadata holds and whatever else is running.
C4_ResolveMainAlways ==
    \A p \in DOMAIN proc :
        (proc[p].op = "resolve" /\ proc[p].pc = "done" /\ proc[p].identifier = MainIdentifier)
            => /\ proc[p].err = "nil"
               /\ proc[p].target.isMain
               /\ proc[p].target.path = MainRoot

\* C5 as stated: Remove attempts every identifier, and returns an error exactly
\* when a pass over an identifier failed.
C5_RemoveAggregates ==
    \A p \in DOMAIN proc :
        (proc[p].op = "remove" /\ proc[p].pc = "done")
            => /\ proc[p].done = proc[p].n
               /\ proc[p].err # "nil" <=> proc[p].errs # <<>>

\* C5 amended: once the identifier list is non-empty and the lock is acquired,
\* the passes are made one identifier at a time, a failing pass appends its
\* error and the loop goes on, and Remove returns after the last identifier,
\* with the joined errors exactly when some pass failed.  Without the lock no
\* identifier is attempted and Remove returns an error.
C5_RemoveAggregatesLocked ==
    /\ [](\A p \in DOMAIN proc :
            (proc[p].op = "remove" /\ proc[p].pc = "done")
                => IF proc[p].acquired
                       THEN /\ proc[p].n > 0
                            /\ proc[p].done = proc[p].n
                            /\ proc[p].err = "nil" <=> proc[p].errs = <<>>
                            /\ proc[p].err \in {"nil", "joined"}
                       ELSE proc[p].done = 0 /\ proc[p].err \notin {"nil", "joined"})
    /\ [][\A p \in DOMAIN proc :
            (/\ proc[p].op = "remove" /\ proc'[p].op = "remove"
             /\ proc'[p].done # proc[p].done)
                => /\ proc'[p].done = proc[p].done + 1
                   /\ proc'[p].pc = "r_loop"
                   /\ lockHeld'[RemoveLockFile] = p
                   /\ proc'[p].errs = IF proc'[p].last.err = "nil"
                                          THEN proc[p].errs
                                          ELSE Append(proc[p].errs, proc'[p].last.err)]_vars

\* C5 witness: Remove of two identifiers has returned the joined error; the
\* first pass failed and the second removed a worktree.
C5_Witness ==
    \E p \in DOMAIN proc :
        /\ proc[p].op = "remove" /\ proc[p].pc = "done" /\ proc[p].n = 2
        /\ proc[p].done = 2
        /\ Len(proc[p].errs) = 1
        /\ proc[p].last.err = "nil" /\ proc[p].last.removed
        /\ proc[p].err = "joined"

\* C6: Remove never issues the worktree removal, the branch deletion or the
\* postRemove hooks for the main repository: a pass whose target is the main
\* root records "cannot remove main" and does nothing else.
C6_NeverRemovesMain ==
    \A p \in DOMAIN proc :
        (proc[p].op = "remove" /\ proc[p].done > 0 /\ proc[p].last.target.path = MainRoot)
            => /\ ~proc[p].last.rmIssued
               /\ ~proc[p].last.delIssued
               /\ ~proc[p].last.hookRun
               /\ proc[p].last.err = "cannot_remove_main"

\* The `git worktree add` commands among the commands a call has issued, and
\* the `git branch --track` commands.
Adds(cmds) == SelectSeq(cmds, LAMBDA c : c.kind \in {"worktree_add", "worktree_add_b"})
Tracks(cmds) == SelectSeq(cmds, LAMBDA c : c.kind = "branch_track")

\* CreateWorktree has gone through its strategy: it failed there, or its
\* worktree add was accepted or refused for good.
StrategyDone(r) ==
    /\ r.op = "create"
    /\ \/ r.pc \in {"c_adding", "c_copy", "c_hook"}
       \/ /\ r.pc = "done"
          /\ r.err \in {"nil", "remote_branch_missing", "local_branch_missing",
                         "vcs_exit_error", "copy_failed", "hook_failed"}

\* C7: for every track mode and every combination of the remote and the local
\* ref, CreateWorktree issues the commands of the strategy table and no others.
C7_StrategyTable ==
    \A p \in DOMAIN proc :
        LET r == proc[p]
            a == Adds(r.cmds)
            t == Tracks(r.cmds)
            path == JoinBase(r.name)
            existing == Cmd("worktree_add", path, r.branch, NoStart, r.force)
            fromRef == Cmd("worktree_add_b", path, r.branch, RefStart(r.fromRef), r.force)
            tracking == Cmd("worktree_add_b", path, r.branch, RemoteStart(r.branch), r.force)
            track == Cmd("branch_track", NoPath, r.branch, RemoteStart(r.branch), FALSE)
        IN  StrategyDone(r) =>
            CASE r.mode = "remote" /\ ~r.remoteExists ->
                    r.err = "remote_branch_missing" /\ a = <<>> /\ t = <<>>
              [] r.mode = "remote" /\ r.remoteExists /\ r.localExists ->
                    a = <<existing>> /\ t = <<>>
              [] r.mode = "remote" /\ r.remoteExists /\ ~r.localExists ->
                    /\ t = <<>>
                    /\ a \in {<<tracking>>, <<tracking, existing>>}
                    /\ r.err = "vcs_exit_error" => a = <<tracking, existing>>
              [] r.mode = "local" /\ ~r.localExists ->
                    r.err = "local_branch_missing" /\ a = <<>> /\ t = <<>>
              [] r.mode = "local" /\ r.localExists ->
                    a = <<existing>> /\ t = <<>>
              [] r.mode = "none" ->
                    a = <<fromRef>> /\ t = <<>>
              [] r.mode = "auto" /\ r.remoteExists /\ ~r.localExists ->
                    a = <<existing>> /\ t = <<track>>
              [] r.mode = "auto" /\ r.localExists ->
                    a = <<existing>> /\ t = <<>>
              [] r.mode = "auto" /\ ~r.remoteExists /\ ~r.localExists ->
                    a = <<fromRef>> /\ t = <<>>

\* C7 witness: in remote mode with only the remote ref, the tracking add was
\* refused, the retry added the existing branch, and CreateWorktree returned.
C7_Witness ==
    \E p \in DOMAIN proc :
        /\ proc[p].op = "create" /\ proc[p].pc = "done" /\ proc[p].err = "nil"
        /\ proc[p].mode = "remote" /\ proc[p].remoteExists /\ ~proc[p].localExists
        /\ Len(Adds(proc[p].cmds)) = 2

\* The errors of the preconditions C8 names.
PreconditionErrors == {"force_requires_name", "invalid_track_mode"}

\* C8 as stated: force without a name suffix fails with force_requires_name, a
\* track mode outside the closed set fails with invalid_track_mode, and both
\* fail before the lock, the base directory and any command.
C8_PreconditionFailures ==
    \A p \in DOMAIN proc :
        LET r == proc[p]
        IN  (r.op = "create" /\ r.pc = "done") =>
            /\ r.force /\ r.suffix = NoName => r.err = "force_requires_name"
            /\ r.mode \notin TrackModes => r.err = "invalid_track_mode"
            /\ r.err \in PreconditionErrors => ~r.acquired /\ r.cmds = <<>>

\* C8 amended: with a non-empty branch, force without a name suffix fails with
\* force_requires_name; with that precondition met too, a track mode outside
\* the closed set fails with invalid_track_mode.  A call that fails a
\* precondition has not asked for the lock nor issued a command, and the step
\* that fails it leaves the repository, the base directory and the locks as
\* they were.
C8_PreconditionFailuresInOrder ==
    /\ [](\A p \in DOMAIN proc :
            LET r == proc[p]
            IN  (r.op = "create" /\ r.pc = "done") =>
                /\ (r.branch # NoName /\ r.force /\ r.suffix = NoName)
                        => r.err = "force_requires_name"
                /\ (r.branch # NoName /\ ~(r.force /\ r.suffix = NoName)
                        /\ r.mode \notin TrackModes)
                        => r.err = "invalid_track_mode"
                /\ r.err \in PreconditionErrors
                        => ~r.acquired /\ r.cmds = <<>> /\ r.name = NoName)
    /\ [][\A p \in DOMAIN proc :
            (proc[p].op = "idle" /\ proc'[p].op = "create"
                    /\ proc'[p].err \in PreconditionErrors)
                => /\ proc'[p].pc = "done"
                   /\ UNCHANGED <<baseDirExists, dirs, meta, heads, remotes, lockHeld>>]_vars

\* C8 witness: a call with a branch and the track mode "bogus" has failed with
\* invalid_track_mode, the base directory not made.
C8_Witness ==
    \E p \in DOMAIN proc :
        /\ proc[p].op = "create" /\ proc[p].pc = "done"
        /\ proc[p].branch = BranchSlash /\ proc[p].mode = "bogus"
        /\ proc[p].err = "invalid_track_mode"
        /\ ~baseDirExists

\* C9: when the worktree add succeeded and the seed copy or a postCreate hook
\* fails, CreateWorktree returns that failure, the worktree stays registered and
\* on disk, and no removal was issued.
C9_NoRollback ==
    \A p \in DOMAIN proc :
        LET r == proc[p]
        IN  (r.op = "create" /\ r.pc = "done" /\ r.added) =>
            /\ r.err \in {"nil", "copy_failed", "hook_failed"}
            /\ meta[r.name] = Row(r.branch, TRUE)
            /\ BaseDirPresent /\ dirs[r.name] = "wt"
            /\ r.branch \in heads
            /\ \A i \in 1..Len(r.cmds) :
                    r.cmds[i].kind \in {"config_get", "branch_track", "worktree_add",
                                        "worktree_add_b", "copy", "hooks_postCreate"}
            /\ r.err = "hook_failed" =>
                    r.cmds[Len(r.cmds)].kind = "hooks_postCreate"
            /\ r.err = "copy_failed" => r.cmds[Len(r.cmds)].kind = "copy"

\* C9 witness: CreateWorktree has returned the failure of a postCreate hook and
\* the worktree it added is registered.
C9_Witness ==
    \E p \in DOMAIN proc :
        /\ proc[p].op = "create" /\ proc[p].pc = "done"
        /\ proc[p].err = "hook_failed"
        /\ proc[p].added
        /\ meta[proc[p].name].present /\ dirs[proc[p].name] = "wt"

----------------------------------------------------------------------------
(* Properties of the configuration resolver and the config mutators.        *)

\* C11 as stated: Default returns the first non-empty value in the order local,
\* file (file_key non-empty and the file there), global, system, environment
\* (env_name non-empty and the variable set), fallback, the value of a scope
\* being the one `git config --get` reports, as it is stored.
C11_DefaultFirstNonEmpty ==
    LET in == tool.in
        Stored(vals) == IF vals = <<>> THEN <<>> ELSE vals[Len(vals)]
        src == <<Stored(in.local),
                 IF in.fileKey /\ in.file.exists THEN Stored(in.file.vals) ELSE <<>>,
                 Stored(in.global),
                 Stored(in.system),
                 IF in.envName /\ in.env.set THEN in.env.value ELSE <<>>>>
    IN  tool.op = "default"
            => IF \E i \in 1..5 : src[i] # <<>>
                   THEN \E i \in 1..5 : /\ src[i] # <<>>
                                        /\ \A j \in 1..(i - 1) : src[j] = <<>>
                                        /\ tool.out.value = src[i]
                   ELSE tool.out.value = in.fallback

\* C11 amended: the same with the values of the four VCS scopes stripped of
\* leading and trailing white space before they are tested and returned; the
\* environment value and the fallback are taken as they are.
C11_DefaultFirstNonBlank ==
    LET in == tool.in
        Stripped(vals) == IF vals = <<>> THEN <<>> ELSE TrimSpace(vals[Len(vals)])
        src == <<Stripped(in.local),
                 IF in.fileKey /\ in.file.exists THEN Stripped(in.file.vals) ELSE <<>>,
                 Stripped(in.global),
                 Stripped(in.system),
                 IF in.envName /\ in.env.set THEN in.env.value ELSE <<>>>>
    IN  tool.op = "default"
            => IF \E i \in 1..5 : src[i] # <<>>
                   THEN \E i \in 1..5 : /\ src[i] # <<>>
                                        /\ \A j \in 1..(i - 1) : src[j] = <<>>
                                        /\ tool.out.value = src[i]
                   ELSE tool.out.value = in.fallback

\* C11 witness: a Default call with no local value found the value of the file
\* scope ahead of a global and a system value.
C11_Witness ==
    /\ tool.op = "default"
    /\ tool.in.local = <<>> /\ tool.in.fileKey
    /\ tool.in.file = [exists |-> TRUE, vals |-> <<<<"b">>>>]
    /\ get(tool.in.global) = <<"a">> /\ tool.in.system # <<>>
    /\ tool.out.value = <<"b">>

\* C12 as stated: All returns the values of local, file, global and system in
\* that order, empty values dropped and the first occurrence of each value
\* kept: no duplicates, first-seen order.
C12_AllMerges ==
    LET in == tool.in
        out == tool.out.values
        src == in.local \o (IF in.fileKey /\ in.file.exists THEN in.file.vals ELSE <<>>)
                   \o in.global \o in.system
        first(v) == CHOOSE i \in 1..Len(src) : src[i] = v /\ \A j \in 1..(i - 1) : src[j] # v
    IN  tool.op = "all"
            => /\ \A i, j \in 1..Len(out) : out[i] = out[j] => i = j
               /\ {out[i] : i \in 1..Len(out)} = {src[i] : i \in 1..Len(src)} \ {<<>>}
               /\ \A i, j \in 1..Len(out) : i < j => first(out[i]) < first(out[j])

\* C12 amended: the same, a scope all of whose values are blank (white space
\* only) giving nothing; the result has no duplicates and keeps first-seen order.
C12_AllMergesNonBlankScopes ==
    LET in == tool.in
        out == tool.out.values
        Given(vs) == IF \A i \in 1..Len(vs) : TrimSpace(vs[i]) = <<>> THEN <<>> ELSE vs
        src == Given(in.local)
                   \o (IF in.fileKey /\ in.file.exists THEN Given(in.file.vals) ELSE <<>>)
                   \o Given(in.global) \o Given(in.system)
        first(v) == CHOOSE i \in 1..Len(src) : src[i] = v /\ \A j \in 1..(i - 1) : src[j] # v
    IN  tool.op = "all"
            => /\ \A i, j \in 1..Len(out) : out[i] = out[j] => i = j
               /\ {out[i] : i \in 1..Len(out)} = {src[i] : i \in 1..Len(src)} \ {<<>>}
               /\ \A i, j \in 1..Len(out) : i < j => first(out[i]) < first(out[j])

\* C12 witness: All merged a local, a file and a system scope that share a
\* value into a list of more than one value.
C12_Witness ==
    /\ tool.op = "all"
    /\ tool.in.local = <<<<"a">>>> /\ tool.in.fileKey
    /\ tool.in.file = [exists |-> TRUE, vals |-> <<<<"a">>, <<"b">>>>]
    /\ tool.in.system # <<>>
    /\ tool.out.values = <<<<"a">>, <<"b">>>>

\* C13 as stated: in one scope, set(k, v) then get(k) gives [v]; add(k, v1),
\* add(k, v2) on a key without a value, then get(k), gives [v1, v2]; unset(k)
\* then get(k) gives []; the mutators having returned no error.
C13_ConfigRoundTrip ==
    LET n == Len(tool.log)
        On(i) == i >= 1 /\ tool.log[i].scope = tool.in.scope /\ tool.log[i].err = "nil"
    IN  (tool.op = "get" /\ On(n))
            => /\ tool.log[n].op = "set" => tool.out.values = <<tool.log[n].value>>
               /\ tool.log[n].op = "unset" => tool.out.values = <<>>
               /\ (tool.log[n].op = "add" /\ On(n - 1) /\ tool.log[n - 1].op = "add"
                        /\ tool.log[n - 1].before = <<>>)
                    => tool.out.values = <<tool.log[n - 1].value, tool.log[n].value>>

\* C13 amended: the same, the set being of a non-empty value; after a set of
\* the empty value get(k) gives [].
C13_ConfigRoundTripNonEmpty ==
    LET n == Len(tool.log)
        On(i) == i >= 1 /\ tool.log[i].scope = tool.in.scope /\ tool.log[i].err = "nil"
    IN  (tool.op = "get" /\ On(n))
            => /\ tool.log[n].op = "set"
                    => tool.out.values = IF tool.log[n].value = <<>>
                                             THEN <<>> ELSE <<tool.log[n].value>>
               /\ tool.log[n].op = "unset" => tool.out.values = <<>>
               /\ (tool.log[n].op = "add" /\ On(n - 1) /\ tool.log[n - 1].op = "add"
                        /\ tool.log[n - 1].before = <<>>)
                    => tool.out.values = <<tool.log[n - 1].value, tool.log[n].value>>

\* C13 witness: get(k) after add(k, " "), add(k, "a") on an unset key gave
\* [" ", "a"].
C13_Witness ==
    LET n == Len(tool.log)
    IN  /\ tool.op = "get" /\ n >= 2
        /\ tool.log[n].op = "add" /\ tool.log[n - 1].op = "add"
        /\ tool.log[n].scope = tool.in.scope /\ tool.log[n - 1].scope = tool.in.scope
        /\ tool.log[n - 1].before = <<>>
        /\ tool.out.values = <<<<" ">>, <<"a">>>>

----------------------------------------------------------------------------
(* Properties of List, Copy, Run and hooks.Run.                             *)

\* C14: list() gives each entry that has a metadata row the status locked if
\* the row is locked, else prunable if its working tree is gone, else detached
\* if its HEAD names no branch, else ok.
C14_StatusPrecedence ==
    tool.op = "list" =>
        \A i \in 1..Len(tool.out.entries) :
            LET e == tool.out.entries[i]
                n == e.target.path.name
            IN  (e.target.path.root = "base" /\ meta[n].present) =>
                    e.status = IF meta[n].locked THEN "locked"
                               ELSE IF isPrunableWorktree(n) THEN "prunable"
                               ELSE IF meta[n].branch = DetachedBranch THEN "detached"
                               ELSE "ok"

\* A listing with an entry whose row is locked, prunable and detached at once.
C14_Witness ==
    /\ tool.op = "list"
    /\ \E i \in 1..Len(tool.out.entries) :
        LET e == tool.out.entries[i]
            n == e.target.path.name
        IN  /\ e.target.path.root = "base" /\ meta[n].present
            /\ meta[n].locked /\ isPrunableWorktree(n) /\ meta[n].branch = DetachedBranch
            /\ e.status = "locked"

\* C15: every list() entry known only from the sweep of the base directory (no
\* metadata row) has status missing and branch (detached), wherever the base
\* directory lies; no entry with a metadata row has status missing.
C15_SweepOnlyMissingDetached ==
    tool.op = "list" =>
        \A i \in 1..Len(tool.out.entries) :
            LET e == tool.out.entries[i]
                n == e.target.path.name
            IN  e.target.path.root = "base" =>
                    IF meta[n].present THEN e.status # "missing"
                    ELSE e.status = "missing" /\ e.target.branch = DetachedBranch

\* C16: the destination set of copy is, with all, every non-main list() entry
\* whose status is neither missing nor prunable and whose path differs from the
\* source; otherwise the resolved targets of the given identifiers minus the
\* source.  A copy that returns no error made exactly one copy_files call per
\* member of that set.
C16_OneCallPerDestination ==
    (tool.op = "copy" /\ tool.out.err = "nil") =>
        LET dests == IF tool.in.all
                THEN {e.target.path : e \in {x \in Listed :
                        /\ ~x.target.isMain /\ x.status \notin {"missing", "prunable"}}}
                     \ {tool.out.src.path}
                ELSE {ResolveTarget(tool.in.targets[i]).target.path :
                        i \in 1..Len(tool.in.targets)} \ {tool.out.src.path}
            calls == tool.out.calls
        IN  /\ \A i \in 1..Len(calls) : calls[i].dst \in dests
            /\ \A d \in dests : Cardinality({i \in 1..Len(calls) : calls[i].dst = d}) = 1

\* C16, amended: the destinations are a list.  With all it is the listing in
\* its order, restricted as above; otherwise it has one place per given
\* identifier, in the order given, the ones that resolve to the source left
\* out, so that a target named twice is there twice.  A copy that returns no
\* error made one copy_files call per place of the list, in order; a copy
\* whose copy_files call fails made the calls up to the failing one; any other
\* error made none.
C16_OneCallPerDestinationEntry ==
    tool.op = "copy" =>
        LET lst == List.entries
            res == [i \in 1..Len(tool.in.targets) |->
                        ResolveTarget(tool.in.targets[i]).target.path]
            dests == IF tool.in.all
                THEN SelectSeq([i \in 1..Len(lst) |->
                                    IF /\ ~lst[i].target.isMain
                                       /\ lst[i].status \notin {"missing", "prunable"}
                                    THEN lst[i].target.path ELSE tool.out.src.path],
                               LAMBDA q : q # tool.out.src.path)
                ELSE SelectSeq(res, LAMBDA q : q # tool.out.src.path)
            called == [i \in 1..Len(tool.out.calls) |-> tool.out.calls[i].dst]
        IN  CASE tool.out.err = "nil" -> called = dests
              [] tool.out.err = "copy_error" ->
                    /\ Len(called) = tool.in.failing
                    /\ called = SubSeq(dests, 1, tool.in.failing)
              [] OTHER -> called = <<>>

\* A copy without error to two identifiers of one worktree: two calls, one
\* destination.
C16_Witness ==
    /\ tool.op = "copy" /\ tool.out.err = "nil" /\ ~tool.in.all
    /\ Len(tool.out.calls) = 2
    /\ tool.out.calls[1].dst = tool.out.calls[2].dst
    /\ tool.in.targets[1] # tool.in.targets[2]

\* C17: a copy whose options leave preserve_paths unset behaves as with
\* preserve_paths = true: each copy_files call writes the matched file d/f at
\* its source-relative path, not under its base name f.
C17_PreservePathsDefaultTrue ==
    (tool.op = "copy" /\ tool.in.preserve = "unset") =>
        \A i \in 1..Len(tool.out.calls) :
            /\ tool.out.calls[i].preservePaths
            /\ tool.out.calls[i].wrote = {<<"d", "/", "f">>}

\* C18: a copy to more than one destination holds the repository lock while
\* it writes to them.
C18_MultiTargetCopyLocks ==
    (/\ tool.op = "copy"
     /\ \E i, j \in 1..Len(tool.out.calls) : tool.out.calls[i].dst # tool.out.calls[j].dst)
        => tool.out.lock # NoProc

\* C19: Manager.Run returns (0, nil) when the child exits 0, (exit code, nil)
\* when the child is spawned and exits non-zero, and (1, error) when argv is
\* empty, the identifier does not resolve or the child cannot be spawned; with
\* empty argv or an unresolved identifier no process is spawned.
C19_RunResults ==
    tool.op = "run" =>
        LET target == ResolveTarget(tool.in.identifier)
            out == tool.out
        IN  IF tool.in.argv = <<>> \/ target.err # "nil"
                THEN out.code = 1 /\ out.err # "nil" /\ ~out.spawned
            ELSE IF ~out.spawned
                THEN out.code = 1 /\ out.err # "nil"
            ELSE /\ out.dir = target.target.path
                 /\ out.err = "nil"
                 /\ out.code = (IF tool.in.child = "exit 0" THEN 0 ELSE 3)

\* A command run in a linked worktree that exits with code 3.
C19_Witness ==
    /\ tool.op = "run" /\ tool.out.spawned
    /\ tool.out.dir.root = "base"
    /\ tool.out.code = 3 /\ tool.out.err = "nil"

\* C20: hooks.Run starts the hook commands one at a time in list order; the
\* first hook that exits non-zero stops the sequence, no later hook is
\* started, and the result is a HookError with the phase, the 1-based place of
\* that hook in the list, its command and its exit code; if every hook exits 0
\* the result is no error and every command was started.
C20_HooksSequential ==
    tool.op = "hooks" =>
        LET hooks == tool.in.hooks
            out == tool.out
            code(h) == IF h = "exit 1" THEN 1 ELSE IF h = "exit 2" THEN 2 ELSE 0
            failing == {i \in 1..Len(hooks) : code(hooks[i]) # 0}
            commands == {i \in 1..Len(hooks) : hooks[i] # ""}
            ran == {out.started[k] : k \in 1..Len(out.started)}
        IN  /\ \A k \in 1..Len(out.started) - 1 : out.started[k] < out.started[k + 1]
            /\ IF failing = {}
                   THEN out.err = "nil" /\ ran = commands
                   ELSE /\ out.err = "hook_error"
                        /\ out.index \in failing
                        /\ \A i \in failing : out.index <= i
                        /\ ran = {i \in commands : i <= out.index}
                        /\ out.phase = tool.in.phase
                        /\ out.command = hooks[out.index]
                        /\ out.exitCode = code(hooks[out.index])

\* Two hooks of which the first fails: the second is never started.
C20_Witness ==
    /\ tool.op = "hooks" /\ Len(tool.in.hooks) = 2
    /\ tool.in.hooks[2] # ""
    /\ tool.out.err = "hook_error" /\ tool.out.index = 1
    /\ tool.out.started = <<1>>

\* C21: Exec of a run-mode spec named cursor, whose command has base name
\* cursor and whose first argument is cli, first runs the full argv with
\* stderr discarded; if that exits 0 no second process is run and the result
\* is (0, nil); if it ends with an exit error the command is run exactly once
\* more with args[1:] and normal stderr and that run's result is returned; if
\* it cannot be started the result is (1, err) and there is no retry.
C21_CursorFallback ==
    (/\ tool.op = "exec" /\ tool.in.mode = "run" /\ tool.in.name = "cursor"
     /\ tool.in.command[Len(tool.in.command)] = "cursor"
     /\ tool.in.args # <<>> /\ tool.in.args[1] = "cli") =>
        LET runs == tool.out.runs
            in == tool.in
        IN  /\ runs[1] = [args |-> in.args, stderr |-> "discard"]
            /\ in.first = "exit 0" => Len(runs) = 1 /\ tool.out.code = 0 /\ tool.out.err = "nil"
            /\ in.first = "cannot start" =>
                    Len(runs) = 1 /\ tool.out.code = 1 /\ tool.out.err # "nil"
            /\ in.first = "exit 3" =>
                    /\ Len(runs) = 2
                    /\ runs[2] = [args |-> Tail(in.args), stderr |-> "normal"]
                    /\ in.second = "exit 0" => tool.out.code = 0 /\ tool.out.err = "nil"
                    /\ in.second = "exit 2" => tool.out.code = 2 /\ tool.out.err # "nil"
                    /\ in.second = "cannot start" => tool.out.code = 1 /\ tool.out.err # "nil"

\* The first attempt ends with an exit error and the retry without cli exits 0.
C21_Witness ==
    /\ tool.op = "exec" /\ tool.in.first = "exit 3"
    /\ Len(tool.out.runs) = 2
    /\ tool.out.runs[2].args = <<"x">>
    /\ tool.out.code = 0

----------------------------------------------------------------------------
(* Properties of the lock, Clean, the configuration keys, the hooks of      *)
(* Remove, the default branch and copy.CopyFiles.                           *)

\* C22: acquire on a lock that another holder keeps for the whole timeout,
\* with a context that is never cancelled, fails with acquire_timeout: a
\* process that leaves its wait for the lock without the lock has that error.
C22_AcquireTimeoutError ==
    [][\A p \in Procs :
          (/\ proc[p].pc \in {"c_lock", "r_lock", "k_lock"}
           /\ proc'[p].pc = "done") => proc'[p].err = "acquire_timeout"]_vars

\* C23: acquire called with an already cancelled context fails with the
\* cancellation error, not with acquire_timeout, and does not take the lock.
C23_CancelledAcquire ==
    (tool.op = "acquire" /\ tool.in.ctx = "cancelled") =>
        /\ tool.out.err = "canceled"
        /\ ~tool.out.locked
        /\ lockHeld[tool.in.file] = NoProc

\* An acquire with a cancelled context on a free lock file has returned.
C23_Witness ==
    /\ tool.op = "acquire" /\ tool.in.ctx = "cancelled"
    /\ tool.out.err = "canceled"
    /\ \A f \in LockFiles : lockHeld[f] = NoProc

C25_OneKeyPrefix ==
    tool.op = "keys" =>
        /\ \A r, q \in DOMAIN tool.out.keys : tool.out.keys[r][1] = tool.out.keys[q][1]
        /\ tool.out.read.createInclude = tool.out.read.copyInclude
        /\ tool.out.read.createExclude = tool.out.read.copyExclude

\* C26: for every identifier whose VCS worktree removal succeeds, remove runs
\* the postRemove hooks from main_root with REPO_ROOT, WORKTREE_PATH and BRANCH
\* of that target.
C26_RemovedRunsHook ==
    LET r == proc[1]
    IN  (r.op = "remove" /\ r.done > 0 /\ r.last.removed) =>
            /\ r.last.hookRun
            /\ r.last.hookDir = MainRoot
            /\ r.last.hookEnv = [REPO_ROOT |-> MainRoot, WORKTREE_PATH |-> r.last.target.path,
                                 BRANCH |-> r.last.target.branch]

\* C26, amended: the postRemove hooks are run for an identifier whose worktree
\* removal succeeded unless the branch deletion step failed: the confirmation
\* callback returned an error, or `branch -D` failed.  Then the pass ends
\* with that error and no hook is run.  The hooks are never run for an
\* identifier whose worktree was not removed.
C26_RemovedRunsHookUnlessDeleteFails ==
    LET r == proc[1]
        it == r.last
        deleteFailed == it.answer = "error" \/ (it.delIssued /\ it.err = "vcs_exit_error")
    IN  (r.op = "remove" /\ r.done > 0) =>
            /\ it.hookRun <=> (it.removed /\ ~deleteFailed)
            /\ it.hookRun =>
                /\ it.hookDir = MainRoot
                /\ it.hookEnv = [REPO_ROOT |-> MainRoot, WORKTREE_PATH |-> it.target.path,
                                 BRANCH |-> it.target.branch]

\* A pass that removed the worktree of a/b, deleted the branch and ran the
\* hooks.
C26_Witness ==
    /\ proc[1].op = "remove" /\ proc[1].done > 0
    /\ proc[1].last.removed /\ proc[1].last.delIssued /\ proc[1].last.hookRun
    /\ proc[1].last.hookEnv.BRANCH = BranchSlash

C28_CheckAndAddAtomic ==
    [][\A p \in Procs :
          (/\ proc[p].op = "create" /\ proc[p].pc = "c_add" /\ proc'[p] # proc[p]
           /\ PathExists(JoinBase(proc[p].name)))
              => /\ proc'[p].cmds = proc[p].cmds
                 /\ proc'[p].err = "worktree_already_exists"]_vars

\* C29: with defaultBranch unset or auto the default branch is X when
\* origin/HEAD is a symbolic ref into refs/remotes/origin/X; in every other
\* case (origin/HEAD absent, not symbolic, or pointing elsewhere) it is main if
\* refs/remotes/origin/main exists, else master if refs/remotes/origin/master
\* exists, else main.  A configured value other than auto is returned as it
\* is.
C29_DefaultBranch ==
    tool.op = "defaultBranch" =>
        LET in == tool.in
            t == in.originHead.target
            into == /\ in.originHead.kind = "symbolic"
                    /\ Len(t) > 3 /\ SubSeq(t, 1, 3) = <<"refs/", "remotes/", "origin/">>
        IN  tool.out.branch =
                IF in.configured \notin {NoName, <<"a", "u", "t", "o">>} THEN in.configured
                ELSE IF into THEN SubSeq(t, 4, Len(t))
                ELSE IF BranchMain \in in.rem THEN BranchMain
                ELSE IF BranchMaster \in in.rem THEN BranchMaster
                ELSE BranchMain

\* C29, amended: a symbolic origin/HEAD that points outside
\* refs/remotes/origin/ gives the short name of the reference it points to
\* (x for refs/heads/x, up/x for refs/remotes/up/x), whatever remote branches
\* exist; only an absent or non-symbolic origin/HEAD falls back to main,
\* master, main.
C29_DefaultBranchShortName ==
    tool.op = "defaultBranch" =>
        LET in == tool.in
            t == in.originHead.target
            into == Len(t) > 3 /\ SubSeq(t, 1, 3) = <<"refs/", "remotes/", "origin/">>
        IN  tool.out.branch =
                IF in.configured \notin {NoName, <<"a", "u", "t", "o">>} THEN in.configured
                ELSE IF in.originHead.kind = "symbolic"
                    THEN IF into THEN SubSeq(t, 4, Len(t))
                         ELSE IF t = <<"refs/", "heads/", "x">> THEN <<"x">>
                         ELSE <<"up/", "x">>
                ELSE IF BranchMain \in in.rem THEN BranchMain
                ELSE IF BranchMaster \in in.rem THEN BranchMaster
                ELSE BranchMain

\* origin/HEAD points to refs/remotes/up/x while origin/master exists: the
\* default branch is up/x.
C29_Witness ==
    /\ tool.op = "defaultBranch" /\ tool.in.configured = NoName
    /\ tool.in.originHead.target = <<"refs/", "remotes/", "up/", "x">>
    /\ tool.in.rem = {BranchMaster}
    /\ tool.out.branch = <<"up/", "x">>

\* C30: when copy.CopyFiles fails with unsafe_pattern or no_patterns, nothing
\* has been written under the destination root.
C30_NothingWrittenOnUnsafe ==
    /\ tool.op = "copyFiles"
    /\ tool.out.err \in {"unsafe_pattern", "no_patterns"}
    => tool.out.written = {}

====
